---- MODULE Spec2Model ----
(***************************************************************************)
(* Attendance session engine and role/permission model of the HR backend.  *)
(* Time is counted in ticks of TickMinutes minutes since local midnight of *)
(* day 0; a calendar day is DayTicks ticks.  Hours are kept in hundredths  *)
(* (the code rounds to 2 decimals), so 4.0 hours is 400.                   *)
(* Audit fields (createdBy, updatedBy, timestamps) steer no decision and   *)
(* are not represented.                                                    *)
(***************************************************************************)
EXTENDS Integers, Sequences, FiniteSets, TLC

\* ---------------------------------------------------------------- bounds
TickMinutes == 20
DayTicks == 72
StartTime == 27
MaxTime == 73
MaxRecs == 3
MaxNoteLen == 2
SvcSpan == 13
MaxRoles == 2
MaxPerms == 3
\* the longest string of freely chosen characters in a request value
MaxShort == 2
\* a role with this many entries in its permission list is given no more
MaxHeld == 3
\* the number of leave applications
MaxLeaves == 2

\* ------------------------------------------------------- program constants
MinutesPerHour == 60
\* the shortest and the longest organization code
MinOrgLen == 2
MaxOrgLen == 10

VARIABLES
  now,      \* wall clock of the server, in ticks
  users,    \* User collection: id -> document (status "none": no such document)
  roles,    \* Role collection: _id -> document
  perms,    \* Permission collection: _id -> document
  leaves,   \* Leave collection: _id -> document
  payrolls, \* Payroll collection: _id -> document
  staff,    \* the documents that User.create has saved: _id -> document
  orgReq,   \* the last request seen by extractOrganizationCode, and its outcome
  att,      \* Attendance collection: _id -> document
  res,      \* the last step: request (req, who, t) and response (code, id)
  firstIn,  \* history: per employee, the first clock-in of the current day
  openedAt, \* history: per employee, the clock-in that opened the session
  lastOut,  \* history: per employee, the latest successful clock-out
  sessSum,  \* history: per employee, ticks spent in today's closed sessions
  inflight  \* clock-in requests being handled, each between two awaits

hist == <<firstIn, openedAt, lastOut, sessSum>>
vars == <<now, users, roles, perms, orgReq, leaves, payrolls, staff, att, res, hist,
         inflight>>

UserIds == {"e1", "e2", "ghost"}
Procs == {"p1", "p2"}
AttIds == 1..MaxRecs
\* the times of day at which requests arrive: 00:00, 00:20, 09:00, 13:00,
\* 13:20, 14:00 and 18:00 with 20-minute ticks
Arrivals == {0, 1, 27, 39, 40, 42, 54}
Instants == {t \in 0..MaxTime : (t % DayTicks) \in Arrivals}
NoteInputs == {"", "n"}
RoleIds == 1..MaxRoles
PermIds == 1..MaxPerms
OrgCodes == {"ACME", "WIDGE"}
\* organization codes as they arrive in a request
OrgInputs == {"ACME", "widge"}
RoleNames == {"admin", "recruiter"}
Levels == {5, 7}
\* the ids that name a document of the Permission collection
Permissions == DOMAIN perms
\* A permission id arrives as a string of 24 hex digits, which the schema of
\* the request accepts in small letters and in capitals.  The string in small
\* letters is written as the id itself, the same digits in capitals as Caps.
Caps(id) == 0 - id
\* the cast of such a string to an ObjectId, which does not look at the case
ObjectId(str) == IF str < 0 THEN 0 - str ELSE str
\* ObjectId.prototype.toString: the digits in small letters
ToHexString(oid) == oid
\* the permission id lists a request can carry (the schema asks for one at least)
PermLists == {<<p>> : p \in PermIds} \cup
             {l \in {<<p, q>> : p \in PermIds, q \in PermIds} : l[1] <= l[2]}
\* the same with ids written in capitals
SpelledPermLists ==
  PermLists \cup {<<Caps(p)>> : p \in PermIds} \cup {<<p, Caps(p)>> : p \in PermIds}

\* the users on file: role is the level number of the user's role
InitUsers ==
  [u \in UserIds |->
     IF u = "e1" THEN [status |-> "active", role |-> 5, org |-> "ACME"]
     ELSE IF u = "e2" THEN [status |-> "inactive", role |-> 5, org |-> "ACME"]
     ELSE [status |-> "none", role |-> 0, org |-> ""]]

\* the roles on file: one system role and one custom role of the same tenant
InitRoles ==
  [r \in {1, 2} |->
     IF r = 1
       THEN [name |-> "admin", org |-> "ACME", level |-> 1,
             isSystemRole |-> TRUE, permissions |-> <<1>>]
       ELSE [name |-> "recruiter", org |-> "ACME", level |-> 5,
             isSystemRole |-> FALSE, permissions |-> <<>>]]

\* the permissions on file: a system-wide one (no organization code) and
\* one of a tenant
InitPerms ==
  [p \in {1, 2} |->
     IF p = 1
       THEN [name |-> "users:read", org |-> <<>>, isSystemPermission |-> TRUE]
       ELSE [name |-> "leave:approve", org |-> <<"ACME">>, isSystemPermission |-> FALSE]]

\* no request has gone through extractOrganizationCode yet
NoOrgRequest == [header |-> <<>>, body |-> <<>>, query |-> <<>>,
                 code |-> -1, organizationCode |-> <<>>]

\* an optional field is <<>> when absent and <<v>> when present
Has(x) == x # <<>>
Val(x) == x[1]

\* new Date(y, m, d) / setHours(0,0,0,0): local midnight of the day of t
StartOfDay(t) == t - (t % DayTicks)

\* setHours(23,59,59,999): the last instant of the day of t
EndOfDay(t) == StartOfDay(t) + DayTicks - 1

\* Math.round(x): nearest integer, halves towards +infinity
MathRound(num, den) == (2 * num + den) \div (2 * den)

\* Math.round(((b - a) / 3600000) * 100) / 100, in hundredths of an hour
RoundedHours(a, b) == MathRound((b - a) * TickMinutes * 100, MinutesPerHour)

\* a filter on the employee alone, whatever the day
TodayFilter_AnyDay(r, e, date) == r.employeeId = e

\* the filter of getTodayAttendance / getAllTodayAttendance
TodayFilter(r, e, date) ==
  /\ r.employeeId = e
  /\ \/ (r.date >= StartOfDay(date) /\ r.date <= EndOfDay(date))
     \/ (r.checkIn >= StartOfDay(date) /\ r.checkIn <= EndOfDay(date))

\* getAllTodayAttendance: every document of the employee for that day
getAllTodayAttendance(e, date) == {id \in DOMAIN att : TodayFilter(att[id], e, date)}

\* a lookup that never matches
getTodayAttendance_NeverFinds(e, date) == {}

\* getTodayAttendance: findOne without a sort returns any one match
getTodayAttendance(e, date) == getAllTodayAttendance(e, date)

\* the _id Attendance.create gives to a new document
NewId == CHOOSE id \in AttIds \ DOMAIN att : \A j \in AttIds \ DOMAIN att : id <= j

\* what a step leaves in res; the request part is filled in by the route
Reply(code, id) == [req |-> "", who |-> "", t |-> 0, code |-> code, id |-> id]
Request(req, who, t, reply) == [reply EXCEPT !.req = req, !.who = who, !.t = t]

\* attendanceSchema.pre('save'): recompute totalHours when both ends exist
PreSave(r) ==
  IF Has(r.checkOut)
    THEN [r EXCEPT !.totalHours = <<RoundedHours(r.checkIn, Val(r.checkOut))>>]
    ELSE r

\* ------------------------------------------------- AttendanceService

\* ReopenRecord with the check-in overwritten by the new clock-in
ReopenRecord_NewCheckIn(r, notes) ==
  [r EXCEPT !.notes = IF notes # "" THEN <<notes>> ELSE r.notes,
            !.status = "present",
            !.isLoggedIn = TRUE,
            !.checkIn = now,
            !.checkOut = <<>>]

\* ReopenRecord with totalHours unset together with checkOut
ReopenRecord_ClearsHours(r, notes) ==
  [r EXCEPT !.notes = IF notes # "" THEN <<notes>> ELSE r.notes,
            !.status = "present",
            !.isLoggedIn = TRUE,
            !.checkOut = <<>>,
            !.totalHours = <<>>]

\* markAttendance, the branch that finds a record for the day: checkIn is
\* left alone, notes/status/isLoggedIn are set, checkOut is unset if present
ReopenRecord(r, notes) ==
  [r EXCEPT !.notes = IF notes # "" THEN <<notes>> ELSE r.notes,
            !.status = "present",
            !.isLoggedIn = TRUE,
            !.checkOut = <<>>]

\* the same update when the record was read earlier than it is written:
\* notes and the $unset are decided on the copy read, the rest of the
\* stored document stays
ReopenStored(cur, read, notes) ==
  [cur EXCEPT !.notes = IF notes # "" THEN <<notes>> ELSE read.notes,
              !.status = "present",
              !.isLoggedIn = TRUE,
              !.checkOut = IF Has(read.checkOut) THEN <<>> ELSE cur.checkOut]

\* a unique index on (employeeId, date)
CanInsert_Unique(e, date) ==
  \A id \in DOMAIN att : ~(att[id].employeeId = e /\ att[id].date = date)

\* the index on (employeeId, date) is not unique: an insert is never refused
CanInsert(e, date) == TRUE

\* markAttendance, the branch that creates the day's record
NewRecord(e, checkIn, checkOut, status, notes) ==
  PreSave([employeeId |-> e,
           date |-> StartOfDay(checkIn),
           checkIn |-> checkIn,
           checkOut |-> checkOut,
           totalHours |-> <<>>,
           status |-> IF status # "" THEN status ELSE "present",
           notes |-> IF notes # "" THEN <<notes>> ELSE <<>>,
           isLoggedIn |-> TRUE])

\* the employee check skipped
EmployeeFound_Always(e) == TRUE

\* the employee check at the head of markAttendance
EmployeeFound(e) == users[e].status # "none"

\* markAttendance(attendanceData, createdBy): the new collection and the reply
markAttendance(e, checkIn, checkOut, status, notes, id) ==
  IF ~EmployeeFound(e)
    THEN [att |-> att, reply |-> Reply(404, 0)]
    ELSE IF id \in DOMAIN att
      THEN [att |-> [att EXCEPT ![id] = ReopenRecord(att[id], notes)],
            reply |-> Reply(200, id)]
      ELSE [att |-> [k \in DOMAIN att \cup {id} |->
                       IF k = id THEN NewRecord(e, checkIn, checkOut, status, notes)
                                 ELSE att[k]],
            reply |-> Reply(201, id)]

\* what findOne hands back: one of the matches, or the _id of a document to
\* be created when there is none
FoundOrNew(found) == IF found # {} THEN found ELSE {NewId}

\* CheckedOut adding the new span to the hours already stored
CheckedOut_AddsHours(r, checkOutTime, notes) ==
  [r EXCEPT !.checkOut = <<checkOutTime>>,
            !.totalHours = <<(IF Has(r.totalHours) THEN Val(r.totalHours) ELSE 0)
                              + RoundedHours(r.checkIn, checkOutTime)>>,
            !.isLoggedIn = FALSE,
            !.notes = IF notes # "" THEN Append(r.notes, "Checkout: " \o notes)
                                    ELSE r.notes]

\* the record markCheckOut saves
CheckedOut(r, checkOutTime, notes) ==
  PreSave([r EXCEPT !.checkOut = <<checkOutTime>>,
                    !.totalHours = <<RoundedHours(r.checkIn, checkOutTime)>>,
                    !.isLoggedIn = FALSE,
                    !.notes = IF notes # "" THEN Append(r.notes, "Checkout: " \o notes)
                                            ELSE r.notes])

\* the ordering check letting a check-out at the check-in instant through
TooEarly_Strict(checkOutTime, checkIn) == checkOutTime < checkIn

\* the time-ordering check of markCheckOut
TooEarly(checkOutTime, checkIn) == checkOutTime <= checkIn

\* markCheckOut without the 'Already checked out' test
markCheckOut_NoClosedTest(id, checkOutTime, notes) ==
  IF id \notin DOMAIN att
    THEN [att |-> att, reply |-> Reply(404, 0)]
    ELSE IF TooEarly(checkOutTime, att[id].checkIn)
      THEN [att |-> att, reply |-> Reply(400, id)]
      ELSE [att |-> [att EXCEPT ![id] =
                       [att[id] EXCEPT !.checkOut = <<checkOutTime>>,
                                       !.totalHours = <<RoundedHours(att[id].checkIn, checkOutTime)>>,
                                       !.isLoggedIn = FALSE]],
            reply |-> Reply(200, id)]

\* markCheckOut(attendanceId, checkOutTime, updatedBy, notes)
markCheckOut(id, checkOutTime, notes) ==
  IF id \notin DOMAIN att
    THEN [att |-> att, reply |-> Reply(404, 0)]
    ELSE IF Has(att[id].checkOut) \/ TooEarly(checkOutTime, att[id].checkIn)
      THEN [att |-> att, reply |-> Reply(400, id)]
      ELSE [att |-> [att EXCEPT ![id] = CheckedOut(att[id], checkOutTime, notes)],
            reply |-> Reply(200, id)]

\* deleteAttendance(id)
deleteAttendance(ids) == [id \in DOMAIN att \ ids |-> att[id]]

\* ---------------------------------------------- AttendanceController

\* the test of the user's status dropped
authenticate_AnyStatus(e) == users[e].status # "none"

\* authenticate: the bearer's user exists and is active
authenticate(e) == users[e].status = "active"

\* notes may grow by one entry per check-out; the schema caps their length
NotesFit(e, notes) ==
  notes = "" \/ \A id \in getAllTodayAttendance(e, now) : Len(att[id].notes) < MaxNoteLen

SameDay(t, u) == StartOfDay(t) = StartOfDay(u)

\* a request slot with no request in it
Idle == [pc |-> "idle", e |-> "", t |-> 0, read |-> <<>>, code |-> 0]

\* POST /attendance/clock-in
ClockIn(e, notes) ==
  /\ authenticate(e)
  /\ AttIds \ DOMAIN att # {}
  /\ \E id \in FoundOrNew(getTodayAttendance(e, StartOfDay(now))) :
       LET out == markAttendance(e, now, <<>>, "", notes, id) IN
       /\ att' = out.att
       /\ res' = Request("clockIn", e, now, out.reply)
  /\ firstIn' = [firstIn EXCEPT ![e] =
       IF Has(@) /\ SameDay(Val(@), now) THEN @ ELSE <<now>>]
  /\ openedAt' = [openedAt EXCEPT ![e] =
       IF Has(@) /\ SameDay(Val(@), now) THEN @ ELSE <<now>>]
  /\ sessSum' = [sessSum EXCEPT ![e] =
       IF Has(firstIn[e]) /\ SameDay(Val(firstIn[e]), now) THEN @ ELSE 0]
  /\ UNCHANGED <<leaves, payrolls, staff, perms, orgReq, now, users, roles, lastOut, inflight>>

\* PUT /attendance/clock-out: the lookup, the controller's own checks, then
\* markCheckOut on the record found
clockOutAt(e, notes, id, checkOutTime) ==
  IF id \notin DOMAIN att
    THEN [att |-> att, reply |-> Reply(400, 0)]
    ELSE IF TooEarly(checkOutTime, att[id].checkIn)
      THEN [att |-> att, reply |-> Reply(400, id)]
      ELSE markCheckOut(id, checkOutTime, notes)

\* checkOutTime is new Date()
clockOut(e, notes, id) == clockOutAt(e, notes, id, now)

ClockOut(e, notes) ==
  /\ authenticate(e)
  /\ NotesFit(e, notes)
  /\ \E id \in FoundOrNew(getTodayAttendance(e, StartOfDay(now))) :
       LET out == clockOut(e, notes, id) IN
       /\ att' = out.att
       /\ res' = Request("clockOut", e, now, out.reply)
  /\ IF res'.code = 200
       THEN /\ sessSum' = [sessSum EXCEPT ![e] =
                 IF Has(openedAt[e]) THEN @ + (now - Val(openedAt[e])) ELSE @]
            /\ openedAt' = [openedAt EXCEPT ![e] = <<>>]
            /\ lastOut' = [lastOut EXCEPT ![e] = <<now>>]
       ELSE UNCHANGED <<openedAt, sessSum, lastOut>>
  /\ UNCHANGED <<leaves, payrolls, staff, perms, orgReq, now, users, roles, firstIn, inflight>>

\* DELETE /attendance/reset-today
ResetToday(e) ==
  /\ authenticate(e)
  /\ att' = deleteAttendance(getAllTodayAttendance(e, StartOfDay(now)))
  /\ res' = Request("resetToday", e, now, Reply(200, 0))
  /\ firstIn' = [firstIn EXCEPT ![e] = <<>>]
  /\ openedAt' = [openedAt EXCEPT ![e] = <<>>]
  /\ lastOut' = [lastOut EXCEPT ![e] = <<>>]
  /\ sessSum' = [sessSum EXCEPT ![e] = 0]
  /\ UNCHANGED <<leaves, payrolls, staff, perms, orgReq, now, users, roles, inflight>>

\* a request whose bearer fails authenticate is answered 401
Rejected(e) ==
  /\ ~authenticate(e)
  /\ res' = Request("authenticate", e, now, Reply(401, 0))
  /\ UNCHANGED <<leaves, payrolls, staff, perms, orgReq, now, users, roles, att, hist, inflight>>

\* the wall clock moves on between requests
Tick(t) ==
  /\ t > now
  /\ now' = t
  /\ res' = Request("tick", "", t, Reply(0, 0))
  /\ UNCHANGED <<leaves, payrolls, staff, perms, orgReq, users, roles, att, hist, inflight>>

Init ==
  /\ now = StartTime
  /\ users = InitUsers
  /\ roles = InitRoles
  /\ perms = InitPerms
  /\ leaves = <<>>
  /\ payrolls = <<>>
  /\ staff = <<>>
  /\ orgReq = NoOrgRequest
  /\ att = <<>>
  /\ res = Request("start", "", StartTime, Reply(0, 0))
  /\ firstIn = [u \in UserIds |-> <<>>]
  /\ openedAt = [u \in UserIds |-> <<>>]
  /\ lastOut = [u \in UserIds |-> <<>>]
  /\ sessSum = [u \in UserIds |-> 0]
  /\ inflight = [p \in Procs |-> Idle]

Next ==
  \/ \E t \in Instants : Tick(t)
  \/ \E e \in UserIds, n \in NoteInputs : ClockIn(e, n)
  \/ \E e \in UserIds, n \in NoteInputs : ClockOut(e, n)
  \/ \E e \in UserIds : ResetToday(e)
  \/ \E e \in UserIds : Rejected(e)

Spec == Init /\ [][Next]_vars

\* ------------------------------------------------- getCurrentStatus

\* every record of the day counted as the active session
ActiveSession_Any(r) == TRUE

\* the test of todayAttendanceRecords.find: record.checkIn && !record.checkOut
\* (checkIn is a Date, which is never falsy)
ActiveSession(r) == ~Has(r.checkOut)

\* GET /attendance/status: the data of the response
getCurrentStatus(e) ==
  LET todayAttendanceRecords == getAllTodayAttendance(e, StartOfDay(now))
      active == {id \in todayAttendanceRecords : ActiveSession(att[id])}
  IN IF todayAttendanceRecords = {}
       THEN [status |-> "not_started", canClockIn |-> TRUE, canClockOut |-> FALSE,
             sessionsCount |-> 0]
       ELSE [status |-> IF active # {} THEN "clocked_in" ELSE "available",
             canClockIn |-> active = {},
             canClockOut |-> active # {},
             sessionsCount |-> Cardinality(todayAttendanceRecords)]

GetCurrentStatus(e) ==
  /\ authenticate(e)
  /\ res' = Request("getCurrentStatus", e, now, Reply(200, 0)) @@ getCurrentStatus(e)
  /\ UNCHANGED <<leaves, payrolls, staff, perms, orgReq, now, users, roles, att, hist, inflight>>

\* the clock-in, clock-out and reset operations with the status query
NextStatus ==
  \/ \E t \in Instants : Tick(t)
  \/ \E e \in UserIds, n \in NoteInputs : ClockIn(e, n)
  \/ \E e \in UserIds, n \in NoteInputs : ClockOut(e, n)
  \/ \E e \in UserIds : ResetToday(e)
  \/ \E e \in UserIds : Rejected(e)
  \/ \E e \in UserIds : GetCurrentStatus(e)

SpecStatus == Init /\ [][NextStatus]_vars

\* ----------------------------- clock-ins handled concurrently
\* Each await of clockIn / markAttendance is a point where another request
\* may run: after the employee lookup, after getTodayAttendance, after the
\* write.

\* clockIn up to markAttendance's getTodayAttendance: the timestamp is taken
RaceBegin(p, e) ==
  /\ inflight[p].pc = "idle"
  /\ authenticate(e)
  /\ inflight' = [inflight EXCEPT ![p] = [Idle EXCEPT !.pc = "lookup", !.e = e, !.t = now]]
  /\ UNCHANGED <<leaves, payrolls, staff, perms, orgReq, now, users, roles, att, res, hist>>

\* existingRecord = await getTodayAttendance(...): <<>> or <<_id, document>>
RaceLookup(p) ==
  /\ inflight[p].pc = "lookup"
  /\ LET found == getTodayAttendance(inflight[p].e, StartOfDay(inflight[p].t)) IN
     \/ /\ found = {}
        /\ inflight' = [inflight EXCEPT ![p].pc = "write", ![p].read = <<>>]
     \/ \E id \in found :
          inflight' = [inflight EXCEPT ![p].pc = "write", ![p].read = <<id, att[id]>>]
  /\ UNCHANGED <<leaves, payrolls, staff, perms, orgReq, now, users, roles, att, res, hist>>

\* the write markAttendance decides on from what it read
raceWrite(e, t, read) ==
  IF Has(read)
    THEN IF read[1] \in DOMAIN att
           THEN [att |-> [att EXCEPT ![read[1]] = ReopenStored(att[read[1]], read[2], "")],
                 reply |-> Reply(200, read[1])]
           ELSE [att |-> att, reply |-> Reply(500, 0)]
    ELSE IF CanInsert(e, StartOfDay(t))
           THEN [att |-> [k \in DOMAIN att \cup {NewId} |->
                            IF k = NewId THEN NewRecord(e, t, <<>>, "", "") ELSE att[k]],
                 reply |-> Reply(201, NewId)]
           ELSE [att |-> att, reply |-> Reply(500, 0)]

\* await Attendance.findByIdAndUpdate(...) / await Attendance.create(...)
RaceWrite(p) ==
  /\ inflight[p].pc = "write"
  /\ Has(inflight[p].read) \/ AttIds \ DOMAIN att # {}
  /\ LET out == raceWrite(inflight[p].e, inflight[p].t, inflight[p].read) IN
     /\ att' = out.att
     /\ res' = Request("clockIn", inflight[p].e, inflight[p].t, out.reply)
     /\ inflight' = [inflight EXCEPT ![p].pc = "done", ![p].code = out.reply.code]
  /\ UNCHANGED <<leaves, payrolls, staff, perms, orgReq, now, users, roles, hist>>

\* the response is sent
RaceEnd(p) ==
  /\ inflight[p].pc = "done"
  /\ \A q \in Procs : inflight[q].pc \in {"idle", "done"}
  /\ inflight' = [inflight EXCEPT ![p] = Idle]
  /\ UNCHANGED <<leaves, payrolls, staff, perms, orgReq, now, users, roles, att, res, hist>>

\* the clock moves only while no request is between two awaits
RaceTick(t) ==
  /\ \A q \in Procs : inflight[q].pc = "idle"
  /\ Tick(t)

NextRace ==
  \/ \E p \in Procs, e \in UserIds : RaceBegin(p, e)
  \/ \E p \in Procs : RaceLookup(p)
  \/ \E p \in Procs : RaceWrite(p)
  \/ \E p \in Procs : RaceEnd(p)
  \/ \E t \in Instants : RaceTick(t)

SpecRace == Init /\ [][NextRace]_vars

\* ------------------------------------- the service called directly

\* updateAttendance(id, updateData, updatedBy): findByIdAndUpdate sets the
\* given fields and runs no save hook
Updated(r, patch) ==
  [r EXCEPT !.checkIn = IF Has(patch.checkIn) THEN Val(patch.checkIn) ELSE r.checkIn,
            !.checkOut = IF Has(patch.checkOut) THEN patch.checkOut ELSE r.checkOut]

updateAttendance(id, patch) ==
  IF id \notin DOMAIN att
    THEN [att |-> att, reply |-> Reply(404, 0)]
    ELSE [att |-> [att EXCEPT ![id] = Updated(att[id], patch)], reply |-> Reply(200, id)]

\* the check-in and check-out times a caller of the service passes
SvcTimes == {StartTime, StartTime + SvcSpan}
OptTimes == {<<>>} \cup {<<t>> : t \in SvcTimes}
Patches == {p \in [checkIn : OptTimes, checkOut : OptTimes] :
              Has(p.checkIn) \/ Has(p.checkOut)}

SvcMarkAttendance(e, checkIn, notes) ==
  /\ AttIds \ DOMAIN att # {}
  /\ \E id \in FoundOrNew(getTodayAttendance(e, StartOfDay(checkIn))) :
       LET out == markAttendance(e, checkIn, <<>>, "", notes, id) IN
       /\ att' = out.att
       /\ res' = Request("markAttendance", e, 0, [out.reply EXCEPT !.id = 0])
  /\ UNCHANGED <<leaves, payrolls, staff, perms, orgReq, now, users, roles, hist, inflight>>

SvcMarkCheckOut(id, checkOutTime, notes) ==
  /\ IF notes # "" /\ id \in DOMAIN att THEN Len(att[id].notes) < MaxNoteLen ELSE TRUE
  /\ LET out == markCheckOut(id, checkOutTime, notes) IN
     /\ att' = out.att
     /\ res' = Request("markCheckOut", "", 0, [out.reply EXCEPT !.id = 0])
  /\ UNCHANGED <<leaves, payrolls, staff, perms, orgReq, now, users, roles, hist, inflight>>

SvcUpdateAttendance(id, patch) ==
  /\ LET out == updateAttendance(id, patch) IN
     /\ att' = out.att
     /\ res' = Request("updateAttendance", "", 0, [out.reply EXCEPT !.id = 0])
  /\ UNCHANGED <<leaves, payrolls, staff, perms, orgReq, now, users, roles, hist, inflight>>

SvcDeleteAttendance(id) ==
  /\ att' = deleteAttendance({id})
  /\ res' = Request("deleteAttendance", "", 0,
                    Reply(IF id \in DOMAIN att THEN 200 ELSE 404, 0))
  /\ UNCHANGED <<leaves, payrolls, staff, perms, orgReq, now, users, roles, hist, inflight>>

NextSvc ==
  \/ \E e \in UserIds, t \in SvcTimes, n \in NoteInputs : SvcMarkAttendance(e, t, n)
  \/ \E id \in AttIds, t \in SvcTimes, n \in NoteInputs : SvcMarkCheckOut(id, t, n)
  \/ \E id \in AttIds, p \in Patches : SvcUpdateAttendance(id, p)
  \/ \E id \in AttIds : SvcDeleteAttendance(id)

SpecSvc == Init /\ [][NextSvc]_vars

\* ------------------------------------------------------------ RoleService

\* String.prototype.toUpperCase on the organization codes in use
ToUpperCase(s) == IF s = "widge" THEN "WIDGE" ELSE s

Range(seq) == {seq[i] : i \in 1..Len(seq)}

\* the _id given to a new role document
NewRoleId == CHOOSE id \in RoleIds \ DOMAIN roles :
               \A other \in RoleIds \ DOMAIN roles : id <= other

\* Role.findOne({ _id: roleId, organizationCode }): the lookup of updateRole
\* and deleteRole
FindInOrg(roleId, organizationCode) ==
  IF roleId \in DOMAIN roles /\ roles[roleId].org = ToUpperCase(organizationCode)
    THEN <<roles[roleId]>> ELSE <<>>

\* Role.findById(roleId): the lookup of addPermissions and removePermissions
FindById(roleId) == IF roleId \in DOMAIN roles THEN <<roles[roleId]>> ELSE <<>>

\* the look-up of the name skipped
NameTaken_Never(name, organizationCode, roleId) == FALSE

\* Role.findOne({ name, organizationCode, _id: { $ne: roleId } })
NameTaken(name, organizationCode, roleId) ==
  \E id \in DOMAIN roles \ {roleId} :
    roles[id].name = name /\ roles[id].org = ToUpperCase(organizationCode)

RoleReply(rs, code, id) == [roles |-> rs, reply |-> Reply(code, id)]

\* createRole(roleData, organizationCode, userId); roleData is the request
\* body as received, so it may carry an isSystemRole key
createRole(roleData, organizationCode, userId) ==
  IF NameTaken(roleData.name, organizationCode, 0)
    THEN RoleReply(roles, 400, 0)
    ELSE LET id == NewRoleId
             doc == [name |-> roleData.name,
                     org |-> ToUpperCase(organizationCode),
                     level |-> roleData.level,
                     isSystemRole |-> IF Has(roleData.isSystemRole)
                                        THEN Val(roleData.isSystemRole) ELSE FALSE,
                     permissions |-> <<>>]
         IN RoleReply([r \in DOMAIN roles \cup {id} |->
                         IF r = id THEN doc ELSE roles[r]], 201, id)

\* Role.findByIdAndUpdate(roleId, { ...updateData, updatedBy }); updateData
\* is the request body as received, so it may carry keys of the schema that
\* the input type does not list
UpdatedRole(r, updateData) ==
  [r EXCEPT !.name = IF Has(updateData.name) THEN Val(updateData.name) ELSE @,
            !.org = IF Has(updateData.organizationCode)
                      THEN Val(updateData.organizationCode) ELSE @,
            !.level = IF Has(updateData.level) THEN Val(updateData.level) ELSE @,
            !.isSystemRole = IF Has(updateData.isSystemRole)
                               THEN Val(updateData.isSystemRole) ELSE @]

\* roleSchema.index({ name: 1, organizationCode: 1 }, { unique: true })
UniqueNameIndex(rs) ==
  \A a \in DOMAIN rs, b \in DOMAIN rs :
    (rs[a].name = rs[b].name /\ rs[a].org = rs[b].org) => a = b

\* the test on the role's isSystemRole flag dropped
IsSystem_Never(role) == FALSE

\* the test on the looked-up role's isSystemRole flag
IsSystem(role) == role.isSystemRole

\* updateRole(roleId, updateData, organizationCode, userId)
updateRole(roleId, updateData, organizationCode, userId) ==
  LET role == FindInOrg(roleId, organizationCode) IN
  IF ~Has(role) THEN RoleReply(roles, 404, roleId)
  ELSE IF IsSystem(Val(role)) THEN RoleReply(roles, 403, roleId)
  ELSE IF /\ Has(updateData.name)
          /\ Val(updateData.name) # Val(role).name
          /\ NameTaken(Val(updateData.name), organizationCode, roleId)
    THEN RoleReply(roles, 400, roleId)
  ELSE LET written == [roles EXCEPT ![roleId] = UpdatedRole(@, updateData)] IN
       IF UniqueNameIndex(written)
         THEN RoleReply(written, 200, roleId)
         ELSE RoleReply(roles, 500, roleId)

\* the count of the role's users skipped
userCount_Zero(level, organizationCode) == 0

\* User.countDocuments({ role: role.level, organizationCode })
userCount(level, organizationCode) ==
  Cardinality({u \in UserIds : /\ users[u].status # "none"
                               /\ users[u].role = level
                               /\ users[u].org = ToUpperCase(organizationCode)})

\* deleteRole(roleId, organizationCode)
deleteRole(roleId, organizationCode) ==
  LET role == FindInOrg(roleId, organizationCode) IN
  IF ~Has(role) THEN RoleReply(roles, 404, roleId)
  ELSE IF IsSystem(Val(role)) THEN RoleReply(roles, 403, roleId)
  ELSE IF userCount(Val(role).level, organizationCode) > 0
    THEN RoleReply(roles, 400, roleId)
  ELSE RoleReply([r \in DOMAIN roles \ {roleId} |-> roles[r]], 200, roleId)

\* the existence check skipped: every listed id counted as found
validPermissions_Length(permissionIds) == Len(permissionIds)

\* Permission.find({ _id: { $in: permissionIds } }).countDocuments()
validPermissions(permissionIds) ==
  Cardinality(Permissions \cap {ObjectId(id) : id \in Range(permissionIds)})

\* permissionIds.filter(id => !role.permissions.some(p => p.toString() === id))
newPermissions(role, permissionIds) ==
  SelectSeq(permissionIds,
            LAMBDA id : ~\E p \in Range(role.permissions) : ToHexString(p) = id)

\* role.permissions.push(...newPermissions): the array casts what it is given
Pushed(permissions, ids) ==
  permissions \o [i \in 1..Len(ids) |-> ObjectId(ids[i])]

\* addPermissions(roleId, permissionIds)
addPermissions(roleId, permissionIds) ==
  LET role == FindById(roleId) IN
  IF ~Has(role) THEN RoleReply(roles, 404, roleId)
  ELSE IF IsSystem(Val(role)) THEN RoleReply(roles, 403, roleId)
  ELSE IF validPermissions(permissionIds) # Len(permissionIds)
    THEN RoleReply(roles, 400, roleId)
  ELSE IF Len(newPermissions(Val(role), permissionIds)) = 0
    THEN RoleReply(roles, 400, roleId)
  ELSE RoleReply([roles EXCEPT ![roleId].permissions =
                    Pushed(@, newPermissions(Val(role), permissionIds))],
                 200, roleId)

\* removePermissions(roleId, permissionIds)
removePermissions(roleId, permissionIds) ==
  LET role == FindById(roleId) IN
  IF ~Has(role) THEN RoleReply(roles, 404, roleId)
  ELSE IF IsSystem(Val(role)) THEN RoleReply(roles, 403, roleId)
  ELSE RoleReply([roles EXCEPT ![roleId].permissions =
                    SelectSeq(@, LAMBDA p :
                                   ToHexString(p) \notin Range(permissionIds))],
                 200, roleId)

\* the bodies a create or update request can carry
OptFlag == {<<>>, <<TRUE>>}
RoleData == [name : RoleNames, level : Levels, isSystemRole : OptFlag]
AnyUpdateData == [name : {<<>>} \cup {<<n>> : n \in RoleNames},
                  level : {<<>>} \cup {<<l>> : l \in Levels},
                  isSystemRole : OptFlag,
                  organizationCode : {<<>>} \cup {<<o>> : o \in OrgCodes}]
\* the bodies tried: at most one key, or a name together with an
\* organization code
UpdateData ==
  {d \in AnyUpdateData :
     \/ Len(d.name) + Len(d.level) + Len(d.isSystemRole) + Len(d.organizationCode) <= 1
     \/ Has(d.name) /\ Has(d.organizationCode) /\ ~Has(d.level) /\ ~Has(d.isSystemRole)}

\* the role routes: each handler runs behind auth and hands the request to
\* the service
CreateRole(roleData, organizationCode, userId) ==
  /\ authenticate(userId)
  /\ RoleIds \ DOMAIN roles # {}
  /\ LET out == createRole(roleData, organizationCode, userId) IN
     /\ roles' = out.roles
     /\ res' = Request("createRole", userId, 0, [out.reply EXCEPT !.id = 0])
  /\ UNCHANGED <<leaves, payrolls, staff, perms, orgReq, now, users, att, hist, inflight>>

UpdateRole(roleId, updateData, organizationCode, userId) ==
  /\ authenticate(userId)
  /\ LET out == updateRole(roleId, updateData, organizationCode, userId) IN
     /\ roles' = out.roles
     /\ res' = Request("updateRole", userId, 0, [out.reply EXCEPT !.id = 0])
  /\ UNCHANGED <<leaves, payrolls, staff, perms, orgReq, now, users, att, hist, inflight>>

DeleteRole(roleId, organizationCode, userId) ==
  /\ authenticate(userId)
  /\ LET out == deleteRole(roleId, organizationCode) IN
     /\ roles' = out.roles
     /\ res' = Request("deleteRole", userId, 0, [out.reply EXCEPT !.id = 0])
  /\ UNCHANGED <<leaves, payrolls, staff, perms, orgReq, now, users, att, hist, inflight>>

AddPermissions(roleId, permissionIds, userId) ==
  /\ authenticate(userId)
  /\ roleId \in DOMAIN roles => Len(roles[roleId].permissions) < MaxHeld
  /\ LET out == addPermissions(roleId, permissionIds) IN
     /\ roles' = out.roles
     /\ res' = Request("addPermissions", userId, 0, [out.reply EXCEPT !.id = 0])
  /\ UNCHANGED <<leaves, payrolls, staff, perms, orgReq, now, users, att, hist, inflight>>

RemovePermissions(roleId, permissionIds, userId) ==
  /\ authenticate(userId)
  /\ LET out == removePermissions(roleId, permissionIds) IN
     /\ roles' = out.roles
     /\ res' = Request("removePermissions", userId, 0, [out.reply EXCEPT !.id = 0])
  /\ UNCHANGED <<leaves, payrolls, staff, perms, orgReq, now, users, att, hist, inflight>>

NextRole ==
  \/ \E d \in RoleData, o \in OrgInputs, u \in UserIds : CreateRole(d, o, u)
  \/ \E r \in RoleIds, d \in UpdateData, o \in OrgInputs, u \in UserIds :
       UpdateRole(r, d, o, u)
  \/ \E r \in RoleIds, o \in OrgInputs, u \in UserIds : DeleteRole(r, o, u)
  \/ \E r \in RoleIds, l \in PermLists, u \in UserIds : AddPermissions(r, l, u)
  \/ \E r \in RoleIds, l \in PermLists, u \in UserIds : RemovePermissions(r, l, u)

SpecRole == Init /\ [][NextRole]_vars

\* ------------------------------------------------------------ UserService

UserReply(us, code) == [users |-> us, reply |-> Reply(code, 0)]

NoUser == [status |-> "none", role |-> 0, org |-> ""]

\* updateEmployee(id, updateData, updatedBy): the keys of the body that the
\* model follows are role and status
updateEmployee(id, updateData, updatedBy) ==
  IF users[id].status = "none" THEN UserReply(users, 404)
  ELSE UserReply([users EXCEPT
                    ![id].role = IF Has(updateData.role) THEN Val(updateData.role) ELSE @,
                    ![id].status = IF Has(updateData.status)
                                     THEN Val(updateData.status) ELSE @], 200)

\* deleteEmployee(id, deletedBy): the employee is kept, with status inactive
deleteEmployee(id, deletedBy) ==
  IF users[id].status = "none" THEN UserReply(users, 404)
  ELSE UserReply([users EXCEPT ![id].status = "inactive"], 200)

\* deleteUser(id, organizationCode): User.findOneAndDelete({ _id, organizationCode })
deleteUser(id, organizationCode) ==
  IF users[id].status # "none" /\ users[id].org = organizationCode
    THEN UserReply([users EXCEPT ![id] = NoUser], 200)
    ELSE UserReply(users, 404)

EmployeeData == [role : {<<>>} \cup {<<l>> : l \in Levels},
                 status : {<<>>, <<"active">>, <<"suspended">>}]

\* the user routes: router.use(authenticate), then the handler
UpdateEmployee(id, updateData, userId) ==
  /\ authenticate(userId)
  /\ LET out == updateEmployee(id, updateData, userId) IN
     /\ users' = out.users
     /\ res' = Request("updateEmployee", userId, 0, out.reply)
  /\ UNCHANGED <<leaves, payrolls, staff, perms, orgReq, now, roles, att, hist, inflight>>

DeleteEmployee(id, userId) ==
  /\ authenticate(userId)
  /\ LET out == deleteEmployee(id, userId) IN
     /\ users' = out.users
     /\ res' = Request("deleteEmployee", userId, 0, out.reply)
  /\ UNCHANGED <<leaves, payrolls, staff, perms, orgReq, now, roles, att, hist, inflight>>

DeleteUser(id, organizationCode, userId) ==
  /\ authenticate(userId)
  /\ LET out == deleteUser(id, ToUpperCase(organizationCode)) IN
     /\ users' = out.users
     /\ res' = Request("deleteUser", userId, 0, out.reply)
  /\ UNCHANGED <<leaves, payrolls, staff, perms, orgReq, now, roles, att, hist, inflight>>

\* authenticate with a bearer token that verifyToken refuses (bad signature
\* or expired), whoever it names: 401 'Invalid or expired token'
BadToken(e) ==
  /\ res' = Request("authenticate", e, now, Reply(401, 0))
  /\ UNCHANGED <<leaves, payrolls, staff, perms, orgReq, now, users, roles, att, hist, inflight>>

\* the staff of an organization changes while roles are deleted
NextStaff ==
  \/ \E id \in UserIds, d \in EmployeeData, u \in UserIds : UpdateEmployee(id, d, u)
  \/ \E id \in UserIds, u \in UserIds : DeleteEmployee(id, u)
  \/ \E id \in UserIds, o \in OrgInputs, u \in UserIds : DeleteUser(id, o, u)
  \/ \E r \in RoleIds, o \in OrgInputs, u \in UserIds : DeleteRole(r, o, u)
  \/ \E e \in UserIds : Rejected(e)
  \/ \E e \in UserIds : BadToken(e)

SpecStaff == Init /\ [][NextStaff]_vars

\* ------------------------------------------------------ PermissionService

PermNames == {"users:read", "leave:approve", "roles:manage"}

\* the organization code a permission request arrives with, if any
OptOrgInputs == {<<>>} \cup {<<o>> : o \in OrgInputs}

\* the _id given to a new permission document
NewPermId == CHOOSE id \in PermIds \ DOMAIN perms :
               \A other \in PermIds \ DOMAIN perms : id <= other

PermReply(ps, code) == [perms |-> ps, reply |-> Reply(code, 0)]

\* the duplicate check of createPermission: the name within the organization
\* when a code is given, among the system permissions otherwise
ExistingPermission(name, organizationCode) ==
  \E id \in DOMAIN perms :
    /\ perms[id].name = name
    /\ IF Has(organizationCode)
         THEN perms[id].org = <<ToUpperCase(Val(organizationCode))>>
         ELSE perms[id].isSystemPermission

\* the unique index that the schema path name declares (unique: true)
UniquePermName(ps) ==
  \A a \in DOMAIN ps, b \in DOMAIN ps : ps[a].name = ps[b].name => a = b

\* the unique index on { name, organizationCode }
UniquePermNameOrg(ps) ==
  \A a \in DOMAIN ps, b \in DOMAIN ps :
    (ps[a].name = ps[b].name /\ ps[a].org = ps[b].org) => a = b

\* the validation of a document with every required path taken as given
Validates_Always(doc) == TRUE

\* the validation that save and insertMany run first: of the required paths
\* (name, displayName, module, action, createdBy, updatedBy) displayName is
\* the one that a caller can leave out
Validates(doc) == Has(doc.displayName)

\* createPermission(permissionData, userId, organizationCode); a save that
\* fails validation or runs into a unique index (E11000) is answered 400
createPermission(permissionData, userId, organizationCode) ==
  IF ExistingPermission(permissionData.name, organizationCode)
    THEN PermReply(perms, 400)
  ELSE IF ~Validates(permissionData) THEN PermReply(perms, 400)
    ELSE LET id == NewPermId
             doc == [name |-> permissionData.name,
                     org |-> IF Has(organizationCode)
                               THEN <<ToUpperCase(Val(organizationCode))>>
                               ELSE <<>>,
                     isSystemPermission |-> ~Has(organizationCode)]
             saved == [p \in DOMAIN perms \cup {id} |->
                         IF p = id THEN doc ELSE perms[p]]
         IN  IF UniquePermName(saved) /\ UniquePermNameOrg(saved)
               THEN PermReply(saved, 201)
               ELSE PermReply(perms, 400)

\* updatePermission(permissionId, updateData, userId); updateData is the
\* request body as received, so it may carry an organizationCode key
updatePermission(permissionId, updateData, userId) ==
  IF permissionId \notin DOMAIN perms THEN PermReply(perms, 404)
  ELSE IF /\ Has(updateData.name)
          /\ Val(updateData.name) # perms[permissionId].name
          /\ \E id \in DOMAIN perms \ {permissionId} :
               perms[id].name = Val(updateData.name)
    THEN PermReply(perms, 400)
  ELSE LET written ==
             [perms EXCEPT
                ![permissionId].name =
                   IF Has(updateData.name) THEN Val(updateData.name) ELSE @,
                ![permissionId].org =
                   IF Has(updateData.organizationCode)
                     THEN <<ToUpperCase(Val(updateData.organizationCode))>>
                     ELSE @]
       IN  IF UniquePermName(written) /\ UniquePermNameOrg(written)
             THEN PermReply(written, 200)
             ELSE PermReply(perms, 500)

\* the count of the referencing roles skipped
roleCount_Zero(permissionId) == 0

\* Role.countDocuments({ permissions: permissionId })
roleCount(permissionId) ==
  Cardinality({r \in DOMAIN roles : permissionId \in Range(roles[r].permissions)})

\* deletePermission(permissionId)
deletePermission(permissionId) ==
  IF permissionId \notin DOMAIN perms THEN PermReply(perms, 404)
  ELSE IF roleCount(permissionId) > 0 THEN PermReply(perms, 400)
  ELSE PermReply([p \in DOMAIN perms \ {permissionId} |-> perms[p]], 200)

\* the modules and actions of which the default permissions are made
Modules == <<"users", "leave">>
Actions == <<"read">>

\* `${module}:${action}`
ModuleAction(module, action) ==
  CASE module = "users" /\ action = "read" -> "users:read"
    [] module = "leave" /\ action = "read" -> "leave:read"

\* defaultPermissions: one entry per module and action, in the order of the
\* two loops; no entry is given a displayName
defaultPermissions ==
  [k \in 1..(Len(Modules) * Len(Actions)) |->
     LET module == Modules[((k - 1) \div Len(Actions)) + 1]
         action == Actions[((k - 1) % Len(Actions)) + 1]
     IN  [name |-> ModuleAction(module, action), displayName |-> <<>>]]

\* Permission.insertMany(docs): every document is validated first and none
\* is written unless all pass; out.ok tells whether the call returned
insertMany(docs, isSystemPermission) ==
  IF \E k \in 1..Len(docs) : ~Validates(docs[k])
    THEN [ok |-> FALSE, perms |-> perms]
    ELSE LET last == IF DOMAIN perms = {} THEN 0
                     ELSE CHOOSE id \in DOMAIN perms :
                            \A other \in DOMAIN perms : other <= id
             written == [p \in DOMAIN perms \cup (last + 1)..(last + Len(docs)) |->
                           IF p \in DOMAIN perms THEN perms[p]
                           ELSE [name |-> docs[p - last].name,
                                 org |-> <<>>,
                                 isSystemPermission |-> isSystemPermission]]
         IN  IF UniquePermName(written) /\ UniquePermNameOrg(written)
               THEN [ok |-> TRUE, perms |-> written]
               ELSE [ok |-> FALSE, perms |-> perms]

\* initializeDefaultPermissions(userId): whatever is thrown ends as 500
initializeDefaultPermissions(userId) ==
  LET existingNames == {perms[p].name : p \in DOMAIN perms}
      missingPermissions ==
        SelectSeq(defaultPermissions, LAMBDA d : d.name \notin existingNames)
  IN  IF Len(missingPermissions) = 0 THEN PermReply(perms, 200)
      ELSE LET out == insertMany(missingPermissions, TRUE)
           IN  IF out.ok THEN PermReply(out.perms, 200)
               ELSE PermReply(perms, 500)

\* the bodies of POST /api/permissions and PUT /api/permissions/:id
\* the bodies tried carry the display name that the schema requires
PermissionData == [name : PermNames, displayName : {<<"label">>}]

PermUpdateData ==
  {d \in [name : {<<>>} \cup {<<n>> : n \in PermNames},
          organizationCode : OptOrgInputs] :
     ~(Has(d.name) /\ Has(d.organizationCode))}

CreatePermission(permissionData, organizationCode, userId) ==
  /\ authenticate(userId)
  /\ PermIds \ DOMAIN perms # {}
  /\ LET out == createPermission(permissionData, userId, organizationCode) IN
     /\ perms' = out.perms
     /\ res' = Request("createPermission", userId, 0, out.reply)
  /\ UNCHANGED <<leaves, payrolls, staff, orgReq, now, users, roles, att, hist, inflight>>

UpdatePermission(permissionId, updateData, userId) ==
  /\ authenticate(userId)
  /\ LET out == updatePermission(permissionId, updateData, userId) IN
     /\ perms' = out.perms
     /\ res' = Request("updatePermission", userId, 0, out.reply)
  /\ UNCHANGED <<leaves, payrolls, staff, orgReq, now, users, roles, att, hist, inflight>>

DeletePermission(permissionId, userId) ==
  /\ authenticate(userId)
  /\ LET out == deletePermission(permissionId) IN
     /\ perms' = out.perms
     /\ res' = Request("deletePermission", userId, 0, out.reply)
  /\ UNCHANGED <<leaves, payrolls, staff, orgReq, now, users, roles, att, hist, inflight>>

InitializeDefaultPermissions(userId) ==
  /\ authenticate(userId)
  /\ LET out == initializeDefaultPermissions(userId) IN
     /\ perms' = out.perms
     /\ res' = Request("initializeDefaultPermissions", userId, 0, out.reply)
  /\ UNCHANGED <<leaves, payrolls, staff, orgReq, now, users, roles, att, hist, inflight>>

\* bodies that name a default permission
DefaultPermissionData ==
  [name : Range([k \in DOMAIN defaultPermissions |-> defaultPermissions[k].name]),
   displayName : {<<"label">>}]

NextDefaults ==
  \/ \E u \in UserIds : InitializeDefaultPermissions(u)
  \/ \E d \in PermissionData \cup DefaultPermissionData, o \in OptOrgInputs,
        u \in UserIds : CreatePermission(d, o, u)
  \/ \E p \in PermIds, d \in PermUpdateData, u \in UserIds :
       UpdatePermission(p, d, u)
  \/ \E p \in PermIds, u \in UserIds : DeletePermission(p, u)

SpecDefaults == Init /\ [][NextDefaults]_vars

NextPerm ==
  \/ \E d \in PermissionData, o \in OptOrgInputs, u \in UserIds :
       CreatePermission(d, o, u)
  \/ \E p \in PermIds, d \in PermUpdateData, u \in UserIds :
       UpdatePermission(p, d, u)
  \/ \E p \in PermIds, u \in UserIds : DeletePermission(p, u)

SpecPerm == Init /\ [][NextPerm]_vars

\* permissions created, granted to roles, withdrawn and deleted
NextGrant ==
  \/ \E d \in PermissionData, o \in OptOrgInputs, u \in UserIds :
       CreatePermission(d, o, u)
  \/ \E p \in PermIds, u \in UserIds : DeletePermission(p, u)
  \/ \E r \in RoleIds, l \in SpelledPermLists, u \in UserIds :
       AddPermissions(r, l, u)
  \/ \E r \in RoleIds, l \in SpelledPermLists, u \in UserIds :
       RemovePermissions(r, l, u)

SpecGrant == Init /\ [][NextGrant]_vars

\* ----------------------------------------------------------- LeaveService

\* Dates are instants on the clock of now.  The dates of a leave are the
\* midnights that start the days 1 to 3; day 0, on which the clock starts, is
\* a Sunday, so the three are working days.
LeaveDates == {d * DayTicks : d \in {1, 2, 3}}
\* two dates only
FewLeaveDates == {d * DayTicks : d \in {1, 2}}

LeaveIds == 1..MaxLeaves

\* the LeaveType collection, which nothing here changes
LeaveTypes ==
  [annual |-> [isActive |-> TRUE, daysAllowed |-> 4],
   unpaid |-> [isActive |-> FALSE, daysAllowed |-> 4]]

\* the leave type ids a request names: two on file and one that is not
LeaveTypeInputs == {"annual", "unpaid", "gone"}

LeaveStatuses == {"pending", "approved", "rejected", "cancelled"}

LeaveReply(ls, code) == [leaves |-> ls, reply |-> Reply(code, 0)]

\* the day of the week of an instant, 0 being Sunday
DayOfWeek(t) == (t \div DayTicks) % 7

\* calculateWorkingDays(startDate, endDate) with the default Monday to Friday
calculateWorkingDays(startDate, endDate) ==
  IF endDate < startDate THEN 0
  ELSE Cardinality({k \in 0..((endDate - startDate) \div DayTicks) :
                      DayOfWeek(startDate + k * DayTicks) \in 1..5})

\* leaveSchema.pre('save'): Math.ceil(timeDiff / one day) + 1
SavedLeave(l) ==
  [l EXCEPT !.totalDays =
     ((l.endDate - l.startDate + DayTicks - 1) \div DayTicks) + 1]

\* the overlap test left out
Overlapping_None(employeeId, startDate, endDate) == {}

\* Leave.findOne({ employeeId, status in approved/pending,
\*                 startDate <= endDate, endDate >= startDate })
Overlapping(employeeId, startDate, endDate) ==
  {id \in DOMAIN leaves :
     /\ leaves[id].employeeId = employeeId
     /\ leaves[id].status \in {"approved", "pending"}
     /\ leaves[id].startDate <= endDate
     /\ leaves[id].endDate >= startDate}

RECURSIVE SumTotalDays(_)
SumTotalDays(ids) ==
  IF ids = {} THEN 0
  ELSE LET id == CHOOSE x \in ids : TRUE
       IN  leaves[id].totalDays + SumTotalDays(ids \ {id})

\* getEmployeeLeaveBalance(employeeId, year)[leaveType.name].used: every leave
\* here is of the one active type and lies in the current year
usedDays(employeeId) ==
  SumTotalDays({id \in DOMAIN leaves :
                  /\ leaves[id].employeeId = employeeId
                  /\ leaves[id].status \in {"approved", "pending"}})

\* applyLeave(leaveData)
applyLeave(leaveData) ==
  IF users[leaveData.employeeId].status = "none" THEN LeaveReply(leaves, 404)
  ELSE IF leaveData.leaveType \notin DOMAIN LeaveTypes THEN LeaveReply(leaves, 404)
  ELSE IF ~LeaveTypes[leaveData.leaveType].isActive THEN LeaveReply(leaves, 400)
  ELSE IF leaveData.startDate >= leaveData.endDate THEN LeaveReply(leaves, 400)
  ELSE IF leaveData.startDate < now THEN LeaveReply(leaves, 400)
  ELSE IF Overlapping(leaveData.employeeId, leaveData.startDate,
                      leaveData.endDate) # {}
    THEN LeaveReply(leaves, 400)
  ELSE IF usedDays(leaveData.employeeId)
            + calculateWorkingDays(leaveData.startDate, leaveData.endDate)
          > LeaveTypes[leaveData.leaveType].daysAllowed
    THEN LeaveReply(leaves, 400)
  ELSE LET id == CHOOSE x \in LeaveIds \ DOMAIN leaves :
                   \A y \in LeaveIds \ DOMAIN leaves : x <= y
           doc == SavedLeave([employeeId |-> leaveData.employeeId,
                              startDate |-> leaveData.startDate,
                              endDate |-> leaveData.endDate,
                              totalDays |-> calculateWorkingDays(leaveData.startDate,
                                                                 leaveData.endDate),
                              status |-> "pending"])
       IN  LeaveReply([l \in DOMAIN leaves \cup {id} |->
                         IF l = id THEN doc ELSE leaves[l]], 201)

\* the test on the status skipped
IsPending_Always(leave) == TRUE

\* leave.status !== LeaveStatus.PENDING, negated
IsPending(leave) == leave.status = "pending"

\* approveLeave(id, approvedBy)
approveLeave(id, approvedBy) ==
  IF id \notin DOMAIN leaves THEN LeaveReply(leaves, 404)
  ELSE IF ~IsPending(leaves[id]) THEN LeaveReply(leaves, 400)
  ELSE LeaveReply([leaves EXCEPT ![id] = SavedLeave([@ EXCEPT !.status = "approved"])],
                  200)

\* rejectLeave(id, rejectedBy, rejectionReason)
rejectLeave(id, rejectedBy) ==
  IF id \notin DOMAIN leaves THEN LeaveReply(leaves, 404)
  ELSE IF ~IsPending(leaves[id]) THEN LeaveReply(leaves, 400)
  ELSE LeaveReply([leaves EXCEPT ![id] = SavedLeave([@ EXCEPT !.status = "rejected"])],
                  200)

\* cancelLeave(id, employeeId?)
cancelLeave(id, employeeId) ==
  IF id \notin DOMAIN leaves THEN LeaveReply(leaves, 404)
  ELSE IF Has(employeeId) /\ leaves[id].employeeId # Val(employeeId)
    THEN LeaveReply(leaves, 403)
  ELSE IF leaves[id].status \notin {"pending", "approved"}
    THEN LeaveReply(leaves, 400)
  ELSE IF leaves[id].startDate <= now THEN LeaveReply(leaves, 400)
  ELSE LeaveReply([leaves EXCEPT ![id] = SavedLeave([@ EXCEPT !.status = "cancelled"])],
                  200)

\* updateLeave(id, updateData, updatedBy): the body goes to findByIdAndUpdate
\* as received, so it may carry a status key, and no save hook runs
updateLeave(id, updateData, updatedBy) ==
  IF id \notin DOMAIN leaves THEN LeaveReply(leaves, 404)
  ELSE IF ~IsPending(leaves[id]) THEN LeaveReply(leaves, 400)
  ELSE LET startDate == IF Has(updateData.startDate)
                          THEN Val(updateData.startDate) ELSE leaves[id].startDate
           endDate == IF Has(updateData.endDate)
                        THEN Val(updateData.endDate) ELSE leaves[id].endDate
       IN  IF (Has(updateData.startDate) \/ Has(updateData.endDate))
              /\ endDate < startDate
             THEN LeaveReply(leaves, 400)
             ELSE LeaveReply([leaves EXCEPT
                                ![id].startDate = startDate,
                                ![id].endDate = endDate,
                                ![id].status = IF Has(updateData.status)
                                                 THEN Val(updateData.status) ELSE @],
                             200)

\* the bodies of PUT /api/leaves/:id that are tried: one key each
LeaveUpdates(dates) ==
  {d \in [startDate : {<<>>} \cup {<<t>> : t \in dates},
          endDate : {<<>>} \cup {<<t>> : t \in dates},
          status : {<<>>} \cup {<<st>> : st \in LeaveStatuses}] :
     Cardinality({k \in {"startDate", "endDate", "status"} : Has(d[k])}) = 1}

ApplyLeave(leaveData) ==
  /\ LeaveIds \ DOMAIN leaves # {}
  /\ LET out == applyLeave(leaveData) IN
     /\ leaves' = out.leaves
     /\ res' = Request("applyLeave", "", 0, out.reply)
  /\ UNCHANGED <<payrolls, staff, perms, orgReq, now, users, roles, att, hist, inflight>>

ApproveLeave(id, approvedBy) ==
  /\ LET out == approveLeave(id, approvedBy) IN
     /\ leaves' = out.leaves
     /\ res' = Request("approveLeave", "", 0, out.reply)
  /\ UNCHANGED <<payrolls, staff, perms, orgReq, now, users, roles, att, hist, inflight>>

RejectLeave(id, rejectedBy) ==
  /\ LET out == rejectLeave(id, rejectedBy) IN
     /\ leaves' = out.leaves
     /\ res' = Request("rejectLeave", "", 0, out.reply)
  /\ UNCHANGED <<payrolls, staff, perms, orgReq, now, users, roles, att, hist, inflight>>

CancelLeave(id, employeeId) ==
  /\ LET out == cancelLeave(id, employeeId) IN
     /\ leaves' = out.leaves
     /\ res' = Request("cancelLeave", "", 0, out.reply)
  /\ UNCHANGED <<payrolls, staff, perms, orgReq, now, users, roles, att, hist, inflight>>

UpdateLeave(id, updateData, updatedBy) ==
  /\ LET out == updateLeave(id, updateData, updatedBy) IN
     /\ leaves' = out.leaves
     /\ res' = Request("updateLeave", "", 0, out.reply)
  /\ UNCHANGED <<payrolls, staff, perms, orgReq, now, users, roles, att, hist, inflight>>

\* the next day begins; the clock is followed over two days
NextDay ==
  /\ now < DayTicks
  /\ now' = now + DayTicks
  /\ res' = Request("tick", "", now + DayTicks, Reply(0, 0))
  /\ UNCHANGED <<leaves, payrolls, staff, perms, orgReq, users, roles, att, hist, inflight>>

LeaveSteps(employees, dates) ==
  \/ \E e \in employees, ty \in LeaveTypeInputs, s \in dates, en \in dates :
       ApplyLeave([employeeId |-> e, leaveType |-> ty, startDate |-> s, endDate |-> en])
  \/ \E id \in LeaveIds : ApproveLeave(id, "e1")
  \/ \E id \in LeaveIds : RejectLeave(id, "e1")
  \/ \E id \in LeaveIds, e \in {<<>>} \cup {<<x>> : x \in employees} : CancelLeave(id, e)
  \/ \E id \in LeaveIds, d \in LeaveUpdates(dates) : UpdateLeave(id, d, "e1")
  \/ NextDay

\* leaves of two employees over three days
NextLeave == LeaveSteps({"e1", "e2"}, LeaveDates)

SpecLeave == Init /\ [][NextLeave]_vars

\* leaves of one employee over two days
NextLeaveStatus == LeaveSteps({"e1"}, FewLeaveDates)

SpecLeaveStatus == Init /\ [][NextLeaveStatus]_vars

\* ------------------------------------------------ PayrollService

\* the largest number of documents in the Payroll collection
MaxPayrolls == 3

\* the month of a payroll request as a number (generatePayroll) and as a
\* string (generatePayrollForEmployee), and the year
MonthNumbers == {1, 2}
MonthStrings == {"1", "2"}
Years == {2025}

\* IPayroll declares month as a string: a number in a filter or in a new
\* document is cast to its decimal digits
MonthString(month) == IF month = 1 THEN "1" ELSE "2"

\* Whether the schema of Payroll takes a document: it may or may not require
\* the organization code that generatePayrollForEmployee leaves out
PayrollValidates(doc, orgRequired) == orgRequired => Has(doc.organizationCode)

PayrollReply(code, id) == Reply(code, id)

\* Payroll.findOne({userId, month, year, organizationCode})
ExistingPayroll_None(userId, month, year, organizationCode) == {}

ExistingPayroll(userId, month, year, organizationCode) ==
  {id \in DOMAIN payrolls :
     /\ payrolls[id].userId = userId
     /\ payrolls[id].month = MonthString(month)
     /\ payrolls[id].year = year
     /\ payrolls[id].organizationCode = <<organizationCode>>}

\* Payroll.findOne({userId, month, year}): any organization
ExistingPayrollOfMonth(userId, month, year) ==
  {id \in DOMAIN payrolls :
     /\ payrolls[id].userId = userId
     /\ payrolls[id].month = month
     /\ payrolls[id].year = year}

\* User.findById
FoundEmployee(userId) == users[userId].status # "none"

\* Payroll.create
CreatedPayroll(doc) == Append(payrolls, doc)

generatePayroll(userId, month, year, createdBy, organizationCode) ==
  IF ExistingPayroll(userId, month, year, organizationCode) # {}
    THEN [payrolls |-> payrolls, reply |-> PayrollReply(400, 0)]
  ELSE IF ~FoundEmployee(userId)
    THEN [payrolls |-> payrolls, reply |-> PayrollReply(404, 0)]
  ELSE [payrolls |-> CreatedPayroll([userId |-> userId,
                                     month |-> MonthString(month),
                                     year |-> year,
                                     status |-> "draft",
                                     generatedBy |-> createdBy,
                                     organizationCode |-> <<organizationCode>>]),
        reply |-> PayrollReply(201, Len(payrolls) + 1)]

generatePayrollForEmployee(userId, month, year, generatedBy, orgRequired) ==
  LET doc == [userId |-> userId, month |-> month, year |-> year,
              status |-> "draft", generatedBy |-> generatedBy,
              organizationCode |-> <<>>]
  IN IF ~FoundEmployee(userId)
       THEN [payrolls |-> payrolls, reply |-> PayrollReply(404, 0)]
     ELSE IF users[userId].status # "active"
       THEN [payrolls |-> payrolls, reply |-> PayrollReply(400, 0)]
     ELSE IF ExistingPayrollOfMonth(userId, month, year) # {}
       THEN [payrolls |-> payrolls, reply |-> PayrollReply(400, 0)]
     ELSE IF ~PayrollValidates(doc, orgRequired)
       THEN [payrolls |-> payrolls, reply |-> PayrollReply(500, 0)]
     ELSE [payrolls |-> CreatedPayroll(doc),
           reply |-> PayrollReply(201, Len(payrolls) + 1)]

GeneratePayroll(userId, month, year, createdBy, organizationCode) ==
  LET r == generatePayroll(userId, month, year, createdBy, organizationCode)
  IN /\ r.payrolls # payrolls => Len(payrolls) < MaxPayrolls
     /\ payrolls' = r.payrolls
     /\ res' = Request("generatePayroll", "", now, r.reply)
     /\ UNCHANGED <<leaves, staff, perms, orgReq, now, users, roles, att, hist, inflight>>

GeneratePayrollForEmployee(userId, month, year, generatedBy, orgRequired) ==
  LET r == generatePayrollForEmployee(userId, month, year, generatedBy, orgRequired)
  IN /\ r.payrolls # payrolls => Len(payrolls) < MaxPayrolls
     /\ payrolls' = r.payrolls
     /\ res' = Request("generatePayrollForEmployee", "", now, r.reply)
     /\ UNCHANGED <<leaves, staff, perms, orgReq, now, users, roles, att, hist, inflight>>

NextPayroll ==
  \/ \E u \in UserIds, m \in MonthNumbers, y \in Years, org \in OrgCodes :
       GeneratePayroll(u, m, y, "e1", org)
  \/ \E u \in UserIds, m \in MonthStrings, y \in Years, orgRequired \in BOOLEAN :
       GeneratePayrollForEmployee(u, m, y, "e1", orgRequired)

SpecPayroll == Init /\ [][NextPayroll]_vars

\* ------------------------------------------------ employee codes

\* the largest number of documents that User.create has on file at a time
MaxStaff == 3

StaffIds == 1..MaxStaff

\* String(n): the decimal digits of a number
RECURSIVE DecimalString(_)
DecimalString(n) ==
  IF n < 10 THEN <<n>> ELSE Append(DecimalString(n \div 10), n % 10)

\* String.prototype.padStart
PadStart(str, targetLength, padString) ==
  IF Len(str) >= targetLength THEN str
  ELSE [i \in 1..(targetLength - Len(str)) |-> padString] \o str

\* countDocuments({organizationCode, employeeCode: {$exists: true}})
countDocuments(organizationCode) ==
  Cardinality({id \in DOMAIN staff :
                 /\ staff[id].organizationCode = organizationCode
                 /\ Has(staff[id].employeeCode)})

\* userSchema.pre('save') of a new document: the employee code is the
\* organization code followed by the count of coded users plus one
generatedEmployeeCode(doc) ==
  IF ~Has(doc.employeeCode) /\ doc.organizationCode # ""
    THEN [doc EXCEPT !.employeeCode =
            <<<<doc.organizationCode>> \o
              PadStart(DecimalString(countDocuments(doc.organizationCode) + 1), 4, 0)>>]
    ELSE doc

\* the unique index on {employeeCode, organizationCode}, sparse
UniqueEmployeeCode(doc) ==
  Has(doc.employeeCode) =>
    \A id \in DOMAIN staff :
      ~(/\ staff[id].employeeCode = doc.employeeCode
        /\ staff[id].organizationCode = doc.organizationCode)

NewStaffId == CHOOSE id \in StaffIds \ DOMAIN staff :
                \A other \in StaffIds \ DOMAIN staff : id <= other

\* the document createUser hands to User.create: role is userData.role || 5,
\* status is userData.status || 'active'
NewUser(userData, organizationCode) ==
  [organizationCode |-> organizationCode,
   employeeCode |-> userData.employeeCode,
   role |-> IF Has(userData.role) /\ Val(userData.role) # 0
              THEN Val(userData.role) ELSE 5,
   status |-> IF Has(userData.status) THEN Val(userData.status) ELSE "active"]

\* createUser(userData, organizationCode): User.create runs the pre-save
\* hook and inserts; a duplicate key (E11000) is answered 400 by
\* handleDuplicateFieldsError
createUser(userData, organizationCode) ==
  LET doc == generatedEmployeeCode(NewUser(userData, organizationCode))
  IN IF ~UniqueEmployeeCode(doc)
       THEN [staff |-> staff, reply |-> Reply(400, 0)]
       ELSE [staff |-> [id \in DOMAIN staff \cup {NewStaffId} |->
                          IF id = NewStaffId THEN doc ELSE staff[id]],
             reply |-> Reply(201, NewStaffId)]

\* User.findOneAndDelete({ _id: id, organizationCode })
findOneAndDelete(id, organizationCode) ==
  IF id \in DOMAIN staff /\ staff[id].organizationCode = organizationCode
    THEN [staff |-> [other \in DOMAIN staff \ {id} |-> staff[other]],
          reply |-> Reply(200, id)]
    ELSE [staff |-> staff, reply |-> Reply(404, 0)]

CreateUserData == [employeeCode : {<<>>}, role : {<<>>}, status : {<<>>}]

CreateUser(userData, organizationCode) ==
  /\ Cardinality(DOMAIN staff) < MaxStaff
  /\ LET out == createUser(userData, organizationCode) IN
     /\ staff' = out.staff
     /\ res' = Request("createUser", organizationCode, now, out.reply)
  /\ UNCHANGED <<leaves, payrolls, perms, orgReq, now, users, roles, att, hist, inflight>>

RemoveUser(id, organizationCode) ==
  /\ LET out == findOneAndDelete(id, organizationCode) IN
     /\ staff' = out.staff
     /\ res' = Request("deleteUser", organizationCode, now, out.reply)
  /\ UNCHANGED <<leaves, payrolls, perms, orgReq, now, users, roles, att, hist, inflight>>

NextCodes ==
  \/ \E d \in CreateUserData, o \in OrgCodes : CreateUser(d, o)
  \/ \E id \in StaffIds, o \in OrgCodes : RemoveUser(id, o)

SpecCodes == Init /\ [][NextCodes]_vars

\* ------------------------------------------------ getUsersAboveRole

\* the role numbers a request body can carry: the user routes run no
\* validation, so a number outside 1..5 is stored as it comes
RoleNumbers == {-1, 0, 2}

RoledUserData == [employeeCode : {<<>>},
                  role : {<<>>} \cup {<<r>> : r \in RoleNumbers},
                  status : {<<>>, <<"inactive">>}]

\* sort({ role: 1, fullName: 1 }) and the map to { userId, role }; names are
\* not followed, users of one role come in some order
SortedByRole(ids) ==
  CHOOSE seq \in [1..Cardinality(ids) -> ids] :
    /\ \A i, j \in DOMAIN seq : i < j =>
         /\ seq[i] # seq[j]
         /\ staff[seq[i]].role <= staff[seq[j]].role

\* the filter role: { $lt: role }
LessThan(a, b) == a < b

getUsersAboveRole(role, organizationCode) ==
  LET found == {id \in DOMAIN staff :
                  /\ LessThan(staff[id].role, role)
                  /\ staff[id].organizationCode = organizationCode
                  /\ staff[id].status = "active"}
      sorted == SortedByRole(found)
  IN [i \in DOMAIN sorted |-> [userId |-> sorted[i], role |-> staff[sorted[i]].role]]

\* the role of the query string after parseInt, and the header of the request
RoleQueries == {0, 1, 2, 6}
OrgHeaders == OrgCodes \cup {""}

\* GET /above-role
GetUsersAboveRole(role, organizationCode) ==
  /\ res' = Request("getUsersAboveRole", organizationCode, now,
                    IF role = 0 \/ role \notin {1, 2, 3, 4, 5} THEN Reply(400, <<>>)
                    ELSE IF organizationCode = "" THEN Reply(400, <<>>)
                    ELSE Reply(200, getUsersAboveRole(role, organizationCode)))
  /\ UNCHANGED <<leaves, payrolls, staff, perms, orgReq, now, users, roles, att, hist, inflight>>

NextAbove ==
  \/ \E d \in RoledUserData, o \in OrgCodes : CreateUser(d, o)
  \/ \E id \in StaffIds, o \in OrgCodes : RemoveUser(id, o)
  \/ \E r \in RoleQueries, o \in OrgHeaders : GetUsersAboveRole(r, o)

SpecAbove == Init /\ [][NextAbove]_vars

\* ------------------------------------------------ extractOrganizationCode

\* A string is the sequence of its characters.  A request value is a string,
\* or some other JSON value of which only the truthiness matters: "truthy"
\* stands for a number other than 0, true, an array or an object, "falsy"
\* for 0, false or null.
Chars == {"a", "A", "1", "-", " "}

Str(cs) == [kind |-> "string", chars |-> cs]
Truthy == [kind |-> "truthy", chars |-> <<>>]
Falsy == [kind |-> "falsy", chars |-> <<>>]

\* the strings of at most MaxShort characters
ShortStrings == UNION {[1..n -> Chars] : n \in 0..MaxShort}

Repeat(c, n) == [i \in 1..n |-> c]

\* strings around the upper length limit, bare, padded, and with a final
\* lower-case letter or symbol
LongStrings ==
  {pre \o Repeat("A", n) \o post :
     n \in (MaxOrgLen - 1)..(MaxOrgLen + 1),
     pre \in {<<>>, <<" ">>},
     post \in {<<>>, <<" ">>, <<"a">>, <<"-">>}}

\* the values the tests of the repository's documentation name
NamedStrings == {<<"a", "c">>, <<"A">>, <<"A", "C", "M", "E", "-", "1">>}

\* the values tried together in several sources
FewStrings == {<<>>, <<"A", "A">>, <<"a", "1">>, <<" ", "a", "A">>, <<"A">>}

Strings == ShortStrings \cup LongStrings \cup NamedStrings \cup FewStrings

\* String.prototype.trim
RECURSIVE trimStart(_)
trimStart(cs) ==
  IF cs # <<>> /\ Head(cs) = " " THEN trimStart(Tail(cs)) ELSE cs

RECURSIVE trimEnd(_)
trimEnd(cs) ==
  IF cs # <<>> /\ cs[Len(cs)] = " "
    THEN trimEnd(SubSeq(cs, 1, Len(cs) - 1))
    ELSE cs

trim(cs) == trimEnd(trimStart(cs))

\* String.prototype.toUpperCase, character by character
toUpperChar(c) ==
  CASE c = "a" -> "A"
    [] c = "c" -> "C"
    [] OTHER -> c

toUpperCase(cs) == [i \in 1..Len(cs) |-> toUpperChar(cs[i])]

\* the characters of the class [A-Z0-9]
UpperAlnum == {"A", "C", "E", "M", "1"}

\* a format test that looks at the characters only
RegExpTest_AnyLength(cs) == \A i \in 1..Len(cs) : cs[i] \in UpperAlnum

\* /^[A-Z0-9]{2,10}$/.test(cs)
RegExpTest(cs) ==
  /\ Len(cs) >= MinOrgLen
  /\ Len(cs) <= MaxOrgLen
  /\ \A i \in 1..Len(cs) : cs[i] \in UpperAlnum

\* JavaScript truthiness of an optional request value
IsTruthy(x) ==
  /\ Has(x)
  /\ \/ Val(x).kind = "truthy"
     \/ Val(x).kind = "string" /\ Val(x).chars # <<>>

\* a choice that looks at the body before the header
orgCodeOf_BodyFirst(header, body, query) ==
  IF IsTruthy(body) THEN body
  ELSE IF IsTruthy(header) THEN header
  ELSE IF IsTruthy(query) THEN query
  ELSE header

\* the value of orgCode after the three reads
orgCodeOf(header, body, query) ==
  IF IsTruthy(header) THEN header
  ELSE IF IsTruthy(body) THEN body
  ELSE IF IsTruthy(query) THEN query
  ELSE header

\* extractOrganizationCode: code 0 stands for next(), the request going on
\* to the route's handler with organizationCode attached
extractOrganizationCode(header, body, query) ==
  LET orgCode == orgCodeOf(header, body, query)
      trimmedOrgCode == toUpperCase(trim(Val(orgCode).chars))
  IN  IF ~IsTruthy(orgCode) \/ Val(orgCode).kind # "string"
        THEN [code |-> 400, organizationCode |-> <<>>]
      ELSE IF ~RegExpTest(trimmedOrgCode)
        THEN [code |-> 400, organizationCode |-> <<>>]
      ELSE [code |-> 0, organizationCode |-> <<trimmedOrgCode>>]

\* a header value is a string, and the HTTP parser has removed the white
\* space around it
HeaderValues ==
  {<<>>} \cup {<<Str(cs)>> : cs \in {c \in Strings : trim(c) = c}}

\* a body value is any JSON value
BodyValues ==
  {<<>>, <<Truthy>>, <<Falsy>>} \cup {<<Str(cs)>> : cs \in Strings}

\* a query value is a string, or an array or object of strings
QueryValues == {<<>>, <<Truthy>>} \cup {<<Str(cs)>> : cs \in Strings}

InFew(x) == ~Has(x) \/ Val(x).kind # "string" \/ Val(x).chars \in FewStrings

ExtractStep(header, body, query) ==
  LET out == extractOrganizationCode(header, body, query)
  IN  orgReq' = [header |-> header, body |-> body, query |-> query,
                 code |-> out.code, organizationCode |-> out.organizationCode]

\* a request that carries the code in at most one place
ExtractOne(header, body, query) ==
  /\ ExtractStep(header, body, query)
  /\ UNCHANGED <<leaves, payrolls, staff, now, users, roles, perms, att, res, hist, inflight>>

\* a request that carries a code in several places
ExtractSeveral(header, body, query) ==
  /\ Cardinality({x \in {<<"h", header>>, <<"b", body>>, <<"q", query>>} :
                    Has(x[2])}) >= 2
  /\ ExtractStep(header, body, query)
  /\ UNCHANGED <<leaves, payrolls, staff, now, users, roles, perms, att, res, hist, inflight>>

NextOrg ==
  \/ \E header \in HeaderValues : ExtractOne(header, <<>>, <<>>)
  \/ \E body \in BodyValues : ExtractOne(<<>>, body, <<>>)
  \/ \E query \in QueryValues : ExtractOne(<<>>, <<>>, query)
  \/ \E header \in {x \in HeaderValues : InFew(x)},
        body \in {x \in BodyValues : InFew(x)},
        query \in {x \in QueryValues : InFew(x)} :
       ExtractSeveral(header, body, query)

SpecOrg == Init /\ [][NextOrg]_vars

\* ------------------------------------------------------------ properties

TodayOf(e) == getAllTodayAttendance(e, now)
IsOpen(r) == ~Has(r.checkOut)

\* h is num/den rounded to the nearest integer: h - 1/2 <= num/den < h + 1/2
IsNearest(h, num, den) == 2 * den * h <= 2 * num + den /\ 2 * num + den < 2 * den * (h + 1)

\* h hundredths of an hour is the span from tick a to tick b, rounded
IsHoursBetween(h, a, b) == IsNearest(h, (b - a) * TickMinutes * 100, MinutesPerHour)

\* C1: through any sequence of clock-ins and clock-outs of one day, the
\* day's record carries the checkIn of the first clock-in of that day.
C1_FirstCheckInKept ==
  \A e \in UserIds : \A id \in TodayOf(e) :
    Has(firstIn[e]) /\ att[id].checkIn = Val(firstIn[e])

\* a second clock-in, after a closed session, has reopened the record
C1_Witness ==
  /\ res.req = "clockIn" /\ res.who = "e1" /\ res.code = 200
  /\ sessSum["e1"] > 0
  /\ \E id \in TodayOf("e1") : IsOpen(att[id]) /\ att[id].checkIn < now

\* C2: whenever the day's record is Closed, its totalHours is the span from
\* the first clock-in of the day to the latest clock-out, rounded to 2
\* decimals, whatever the individual sessions add up to.
C2_HoursAreFirstToLast ==
  \A e \in UserIds : \A id \in TodayOf(e) :
    Has(att[id].checkOut) =>
      /\ Has(firstIn[e]) /\ Has(lastOut[e]) /\ Has(att[id].totalHours)
      /\ att[id].checkIn = Val(firstIn[e])
      /\ att[id].checkOut = lastOut[e]
      /\ IsHoursBetween(Val(att[id].totalHours), Val(firstIn[e]), Val(lastOut[e]))

\* in 09:00, out 13:00, in 14:00, out 18:00: two sessions of 4 hours, 9.00 stored
C2_Witness ==
  /\ TickMinutes = 20
  /\ sessSum["e1"] = 24
  /\ \E id \in TodayOf("e1") :
       /\ att[id].checkIn = 27
       /\ att[id].checkOut = <<54>>
       /\ att[id].totalHours = <<900>>

\* C4: a clock-out changes the attendance records only when the employee's
\* record for today is Open; with no record today, or a record that already
\* has a checkOut, it is answered 400 and every record is left as it was.
C4_ClockOutNeedsOpen ==
  [][\A e \in UserIds :
       (res'.req = "clockOut" /\ res'.who = e /\ ~\E id \in TodayOf(e) : IsOpen(att[id]))
         => (res'.code = 400 /\ att' = att)]_vars

\* a second clock-out on the Closed record was refused
C4_Witness ==
  /\ res.req = "clockOut" /\ res.who = "e1" /\ res.code = 400
  /\ \E id \in TodayOf("e1") : Has(att[id].checkOut) /\ Val(att[id].checkOut) < now

\* C5: a clock-in of an existing employee succeeds in every day-state: with
\* no record today it creates an Open one, an Open record stays Open, and a
\* Closed record is reopened (isLoggedIn, no checkOut) with the totalHours
\* of the prior close untouched.
C5_ClockInNeverRejected ==
  [][\A e \in UserIds :
       (res'.req = "clockIn" /\ res'.who = e) =>
         IF TodayOf(e) = {}
           THEN /\ res'.code = 201
                /\ res'.id \notin DOMAIN att
                /\ DOMAIN att' = DOMAIN att \cup {res'.id}
                /\ \A k \in DOMAIN att : att'[k] = att[k]
                /\ att'[res'.id].employeeId = e
                /\ att'[res'.id].checkIn = now
                /\ att'[res'.id].date = StartOfDay(now)
                /\ IsOpen(att'[res'.id]) /\ att'[res'.id].isLoggedIn
           ELSE /\ res'.code = 200
                /\ res'.id \in TodayOf(e)
                /\ DOMAIN att' = DOMAIN att
                /\ \A k \in DOMAIN att \ {res'.id} : att'[k] = att[k]
                /\ IsOpen(att'[res'.id]) /\ att'[res'.id].isLoggedIn
                /\ att'[res'.id].checkIn = att[res'.id].checkIn
                /\ att'[res'.id].totalHours = att[res'.id].totalHours]_vars

\* a Closed record has been reopened and still carries the earlier totalHours
C5_Witness ==
  /\ res.req = "clockIn" /\ res.who = "e1" /\ res.code = 200
  /\ IsOpen(att[res.id]) /\ att[res.id].isLoggedIn
  /\ Has(att[res.id].totalHours)

\* C7: in any sequential execution of clock-in, clock-out and reset there is
\* at most one attendance record per employee and calendar day.
C7_OneRecordPerDay ==
  \A i, j \in DOMAIN att :
    (att[i].employeeId = att[j].employeeId /\ att[i].date = att[j].date) => i = j

\* a clock-in on a day that has a record went to that record
C7_Witness ==
  /\ res.req = "clockIn" /\ res.code = 200
  /\ Cardinality(TodayOf(res.who)) = 1
  /\ Cardinality(DOMAIN att) = 2

C6_OnlyActiveEmployees ==
  [][\A e \in UserIds, t \in SvcTimes, n \in NoteInputs :
       (/\ users[e].status # "active"
        /\ res'.req = "markAttendance" /\ res'.who = e
        /\ SvcMarkAttendance(e, t, n)) =>
         /\ att' = att
         /\ res'.code >= 400
         /\ (users[e].status = "none" => res'.code = 404)]_vars

\* C6 as amended: markAttendance looks only at the employee's existence; an
\* unknown employee is answered 404 and nothing is written, and every
\* existing employee, whatever the status, gets the record written.
C6_OnlyExistingEmployees ==
  [][\A e \in UserIds, t \in SvcTimes, n \in NoteInputs :
       (/\ res'.req = "markAttendance" /\ res'.who = e
        /\ SvcMarkAttendance(e, t, n)) =>
         IF users[e].status = "none"
           THEN att' = att /\ res'.code = 404
           ELSE /\ res'.code \in {200, 201}
                /\ \E id \in DOMAIN att' :
                     att'[id].employeeId = e /\ att'[id].isLoggedIn]_vars

\* the unknown employee was refused while the inactive one holds a record
C6_Witness ==
  /\ res.req = "markAttendance" /\ res.who = "ghost" /\ res.code = 404
  /\ \E id \in DOMAIN att : att[id].employeeId = "e2" /\ users["e2"].status = "inactive"
  /\ \A id \in DOMAIN att : att[id].employeeId # "ghost"

OpenOn(e, day) ==
  {id \in DOMAIN att : att[id].employeeId = e /\ att[id].date = day /\ IsOpen(att[id])}

\* C8: two concurrent clock-ins of one employee on one day that both did
\* the lookup before either wrote end with two Open records for that
\* employee and day; the write path refuses neither insert.
C8_RaceMakesDuplicates ==
  \A p, q \in Procs :
    ( /\ p # q
      /\ inflight[p].pc = "done" /\ inflight[q].pc = "done"
      /\ inflight[p].e = inflight[q].e
      /\ SameDay(inflight[p].t, inflight[q].t)
      /\ ~Has(inflight[p].read) /\ ~Has(inflight[q].read) )
    => /\ inflight[p].code = 201 /\ inflight[q].code = 201
       /\ Cardinality(OpenOn(inflight[p].e, StartOfDay(inflight[p].t))) >= 2

\* both requests answered 201 and e1 has two Open records for the day
C8_Witness ==
  /\ inflight["p1"].pc = "done" /\ inflight["p2"].pc = "done"
  /\ inflight["p1"].code = 201 /\ inflight["p2"].code = 201
  /\ Cardinality(OpenOn("e1", StartOfDay(now))) = 2

\* C10: in every state, updateRole, deleteRole, addPermissions and
\* removePermissions applied to a role with isSystemRole = true answer 403
\* Forbidden whenever their lookup finds the role, whoever calls and
\* whatever the request carries, and in every case leave the role
\* collection as it was.
C10_SystemRolesImmutable ==
  \A r \in DOMAIN roles :
    roles[r].isSystemRole =>
      /\ \A d \in UpdateData, o \in OrgInputs, u \in UserIds :
           LET out == updateRole(r, d, o, u) IN
           /\ out.roles = roles
           /\ out.reply.code = IF Has(FindInOrg(r, o)) THEN 403 ELSE 404
      /\ \A o \in OrgInputs :
           LET out == deleteRole(r, o) IN
           /\ out.roles = roles
           /\ out.reply.code = IF Has(FindInOrg(r, o)) THEN 403 ELSE 404
      /\ \A l \in PermLists :
           LET out == addPermissions(r, l) IN
           out.roles = roles /\ out.reply.code = 403
      /\ \A l \in PermLists :
           LET out == removePermissions(r, l) IN
           out.roles = roles /\ out.reply.code = 403

\* a system role has just been refused a change of its permissions and
\* stands as it was created
C10_Witness ==
  /\ res.req \in {"addPermissions", "removePermissions"}
  /\ res.code = 403
  /\ roles[1].isSystemRole /\ roles[1].permissions = <<1>>
  /\ \A r \in DOMAIN roles \ {1} : ~roles[r].isSystemRole

\* C11: no two roles of one organization share a name, in every state
\* reached through createRole and updateRole (and the other role
\* operations); createRole with a name already used in the organization
\* is refused (the code answers 400) and writes nothing, while the same
\* name used only in another organization does not stand in the way: the
\* role is created in the organization asked for.
C11_RoleNamesUniquePerTenant ==
  /\ \A a \in DOMAIN roles, b \in DOMAIN roles :
       a # b => roles[a].name # roles[b].name \/ roles[a].org # roles[b].org
  /\ RoleIds \ DOMAIN roles # {} =>
       \A d \in RoleData, o \in OrgInputs, u \in UserIds :
         LET out == createRole(d, o, u) IN
         IF \E r \in DOMAIN roles :
              roles[r].name = d.name /\ roles[r].org = ToUpperCase(o)
           THEN out.reply.code = 400 /\ out.roles = roles
           ELSE /\ out.reply.code = 201
                /\ out.reply.id \notin DOMAIN roles
                /\ DOMAIN out.roles = DOMAIN roles \cup {out.reply.id}
                /\ out.roles[out.reply.id].name = d.name
                /\ out.roles[out.reply.id].org = ToUpperCase(o)
                /\ \A r \in DOMAIN roles : out.roles[r] = roles[r]

\* a role has just been created under a name that another organization
\* uses too, and a free slot is left for a further create
C11_Witness ==
  /\ res.req = "createRole" /\ res.code = 201
  /\ \E a \in DOMAIN roles, b \in DOMAIN roles :
       roles[a].name = roles[b].name /\ roles[a].org = "ACME" /\ roles[b].org = "WIDGE"

\* C12: deleteRole on a non-system role of the organization asked for is
\* refused (the code answers 400) and leaves the role in place while some
\* User document of that organization has role equal to the role's level;
\* when no such User document exists it succeeds and the role is gone.
C12_DeleteRoleNeedsNoUsers ==
  \A r \in DOMAIN roles, o \in OrgInputs :
    (~roles[r].isSystemRole /\ roles[r].org = ToUpperCase(o)) =>
      LET out == deleteRole(r, o) IN
      IF \E u \in UserIds : /\ users[u].status # "none"
                            /\ users[u].role = roles[r].level
                            /\ users[u].org = roles[r].org
        THEN out.reply.code = 400 /\ out.roles = roles
        ELSE /\ out.reply.code = 200
             /\ DOMAIN out.roles = DOMAIN roles \ {r}
             /\ \A q \in DOMAIN out.roles : out.roles[q] = roles[q]

\* the role of level 5 has been deleted after its last user left it
C12_Witness ==
  /\ res.req = "deleteRole" /\ res.code = 200
  /\ 2 \notin DOMAIN roles
  /\ \A u \in UserIds : users[u].role # 5
  /\ \E u \in UserIds : users[u].status # "none" /\ users[u].org = "ACME"

\* C13: a role that createRole persists has isSystemRole = false whatever
\* the request data carries, and updateRole never turns the flag of a
\* non-system role to true.
C13_CreatedRolesNeverSystem ==
  [][/\ (res'.req = "createRole" /\ res'.code = 201) =>
          \A r \in DOMAIN roles' \ DOMAIN roles : ~roles'[r].isSystemRole
     /\ res'.req = "updateRole" =>
          \A r \in DOMAIN roles \cap DOMAIN roles' :
            ~roles[r].isSystemRole => ~roles'[r].isSystemRole]_vars

\* C14: addPermissions on a non-system role fails and appends nothing when
\* some requested id names no permission; fails (the code answers 400) when
\* every requested id is already in the role's set; and otherwise succeeds,
\* the role's permission set becoming the old set plus the requested ids
\* that were not in it.
C14_AddPermissionsSemantics ==
  \A r \in DOMAIN roles, l \in PermLists :
    ~roles[r].isSystemRole =>
      LET out == addPermissions(r, l)
          old == Range(roles[r].permissions)
      IN
      IF ~(Range(l) \subseteq Permissions)
        THEN out.reply.code >= 400 /\ out.roles = roles
      ELSE IF Range(l) \subseteq old
        THEN out.reply.code = 400 /\ out.roles = roles
      ELSE /\ out.reply.code = 200
           /\ Range(out.roles[r].permissions) = old \cup Range(l)
           /\ \A q \in DOMAIN roles \ {r} : out.roles[q] = roles[q]

\* C15: a request of a caller of one organization never changes a role of
\* another organization: after updateRole, deleteRole, addPermissions or
\* removePermissions issued by the caller, every role whose organization
\* is not the caller's is there as it was.
C15_TenantIsolation ==
  [][res'.req \in {"updateRole", "deleteRole", "addPermissions", "removePermissions"} =>
       \A r \in DOMAIN roles :
         roles[r].org # users[res'.who].org =>
           r \in DOMAIN roles' /\ roles'[r] = roles[r]]_vars

\* C16: the role routes documented as admin only (create, update, delete,
\* add permissions, remove permissions) succeed only for a caller whose
\* numeric role is 1 or 2; a caller with role 3, 4 or 5 is answered 403 and
\* the roles stay as they were.
C16_AdminOnlyRoleRoutes ==
  [][res'.req \in {"createRole", "updateRole", "deleteRole",
                   "addPermissions", "removePermissions"} =>
       /\ res'.code \in {200, 201} => users[res'.who].role \in {1, 2}
       /\ users[res'.who].role \in {3, 4, 5} =>
            res'.code = 403 /\ roles' = roles]_vars

\* C17: a handler behind authenticate runs only for a bearer whose user
\* exists with status active at the time of the request; every other
\* request is answered 401 and changes nothing.  So a user set inactive
\* (soft-deleted) is refused from then on, as long as the status stays.
C17_OnlyActiveBearersServed ==
  [][/\ res'.req \in {"updateEmployee", "deleteEmployee", "deleteUser", "deleteRole"} =>
          users[res'.who].status = "active"
     /\ \A e \in UserIds :
          users[e].status # "active" =>
            /\ \A id \in UserIds, d \in EmployeeData : ~ENABLED UpdateEmployee(id, d, e)
            /\ \A id \in UserIds : ~ENABLED DeleteEmployee(id, e)
            /\ \A id \in UserIds, o \in OrgInputs : ~ENABLED DeleteUser(id, o, e)
            /\ \A r \in RoleIds, o \in OrgInputs : ~ENABLED DeleteRole(r, o, e)
            /\ ENABLED Rejected(e)
     /\ res'.req = "authenticate" =>
          /\ res'.code = 401
          /\ UNCHANGED <<users, roles, att>>]_vars

\* e1, active at the start, was soft-deleted and its next request refused
C17_Witness ==
  /\ res.req = "authenticate" /\ res.code = 401 /\ res.who = "e1"
  /\ users["e1"].status = "inactive"


\* the sources of the last request that hold a value at all
PresentSources(r) == {x \in {<<1, r.header>>, <<2, r.body>>, <<3, r.query>>} : Has(x[2])}

\* C18 as claimed: of a request that names the code in one place at most,
\* extractOrganizationCode passes on exactly those whose value is a string
\* that matches ^[A-Z0-9]{2,10}$ once upper-cased, attaching the upper-cased
\* value, and answers every other one, the one without a value included, 400.
C18_AcceptsFormatUppercased ==
  (orgReq # NoOrgRequest /\ Cardinality(PresentSources(orgReq)) <= 1) =>
    LET given == PresentSources(orgReq)
        isString == given # {} /\ \A x \in given : Val(x[2]).kind = "string"
        upper == IF isString
                   THEN toUpperCase(Val((CHOOSE x \in given : TRUE)[2]).chars)
                   ELSE <<>>
        matches == /\ isString
                   /\ Len(upper) \in MinOrgLen..MaxOrgLen
                   /\ \A i \in 1..Len(upper) : upper[i] \in UpperAlnum
    IN  /\ orgReq.code \in {0, 400}
        /\ orgReq.code = 0 <=> matches
        /\ orgReq.code = 0 => orgReq.organizationCode = <<upper>>
        /\ orgReq.code = 400 => orgReq.organizationCode = <<>>

\* C18 as amended: the white space around the value is removed before the
\* value is upper-cased and matched, and the trimmed upper-cased value is the
\* one attached.
C18_AcceptsFormatTrimmedUppercased ==
  (orgReq # NoOrgRequest /\ Cardinality(PresentSources(orgReq)) <= 1) =>
    LET given == PresentSources(orgReq)
        isString == given # {} /\ \A x \in given : Val(x[2]).kind = "string"
        upper == IF isString
                   THEN toUpperCase(trim(Val((CHOOSE x \in given : TRUE)[2]).chars))
                   ELSE <<>>
        matches == /\ isString
                   /\ Len(upper) \in MinOrgLen..MaxOrgLen
                   /\ \A i \in 1..Len(upper) : upper[i] \in UpperAlnum
    IN  /\ orgReq.code \in {0, 400}
        /\ orgReq.code = 0 <=> matches
        /\ orgReq.code = 0 => orgReq.organizationCode = <<upper>>
        /\ orgReq.code = 400 => orgReq.organizationCode = <<>>

\* the body value " aA" alone was passed on as "AA"
C18_Witness ==
  /\ orgReq.header = <<>> /\ orgReq.query = <<>>
  /\ orgReq.body = <<Str(<<" ", "a", "A">>)>>
  /\ orgReq.code = 0
  /\ orgReq.organizationCode = <<(<<"A", "A">>)>>

\* C19 as claimed: the code is read from the header if the header is there,
\* otherwise from the body, otherwise from the query; a request passed on
\* carries the upper-cased value of that one source, and a request whose
\* first source is missing or malformed is answered 400 whatever the later
\* sources hold.
C19_HeaderBodyQueryPrecedence ==
  orgReq # NoOrgRequest =>
    LET src == IF Has(orgReq.header) THEN orgReq.header
               ELSE IF Has(orgReq.body) THEN orgReq.body
               ELSE orgReq.query
        isString == Has(src) /\ Val(src).kind = "string"
        upper == IF isString THEN toUpperCase(Val(src).chars) ELSE <<>>
        wellFormed == /\ isString
                      /\ Len(upper) \in MinOrgLen..MaxOrgLen
                      /\ \A i \in 1..Len(upper) : upper[i] \in UpperAlnum
    IN  /\ orgReq.code \in {0, 400}
        /\ orgReq.code = 0 => wellFormed /\ orgReq.organizationCode = <<upper>>
        /\ ~wellFormed => orgReq.code = 400 /\ orgReq.organizationCode = <<>>

\* C19 as amended: a source counts when its value is truthy (a non-empty
\* string or, in body and query, another truthy value); the code is read from
\* the first such source in the order header, body, query; a request passed
\* on carries the trimmed upper-cased value of that one source, and a request
\* whose first such source is missing or malformed is answered 400 whatever
\* the later sources hold.
C19_FirstTruthySourcePrecedence ==
  orgReq # NoOrgRequest =>
    LET src == IF IsTruthy(orgReq.header) THEN orgReq.header
               ELSE IF IsTruthy(orgReq.body) THEN orgReq.body
               ELSE IF IsTruthy(orgReq.query) THEN orgReq.query
               ELSE <<>>
        isString == Has(src) /\ Val(src).kind = "string"
        upper == IF isString THEN toUpperCase(trim(Val(src).chars)) ELSE <<>>
        wellFormed == /\ isString
                      /\ Len(upper) \in MinOrgLen..MaxOrgLen
                      /\ \A i \in 1..Len(upper) : upper[i] \in UpperAlnum
    IN  /\ orgReq.code \in {0, 400}
        /\ orgReq.code = 0 => wellFormed /\ orgReq.organizationCode = <<upper>>
        /\ ~wellFormed => orgReq.code = 400 /\ orgReq.organizationCode = <<>>

\* header "a1" won over body "AA" and query "A": the request went on as "A1"
C19_Witness ==
  /\ orgReq.header = <<Str(<<"a", "1">>)>>
  /\ orgReq.body = <<Str(<<"A", "A">>)>>
  /\ orgReq.query = <<Str(<<"A">>)>>
  /\ orgReq.code = 0
  /\ orgReq.organizationCode = <<(<<"A", "1">>)>>


\* C20: permission names are unique within their scope (an organization, or
\* the system scope) and only there: createPermission is refused, nothing
\* being written, when the name is already a permission of the same scope,
\* and creates the permission otherwise, a permission of that name in another
\* organization notwithstanding.
C20_PermissionNamesUniquePerScope ==
  /\ \A a \in DOMAIN perms, b \in DOMAIN perms :
       (perms[a].name = perms[b].name /\ perms[a].org = perms[b].org) => a = b
  /\ (PermIds \ DOMAIN perms # {}) =>
       \A d \in PermissionData, o \in OptOrgInputs, u \in UserIds :
         LET scope == IF Has(o) THEN <<ToUpperCase(Val(o))>> ELSE <<>>
             out == createPermission(d, u, o)
         IN  IF \E id \in DOMAIN perms :
                  perms[id].name = d.name /\ perms[id].org = scope
               THEN out.reply.code = 400 /\ out.perms = perms
               ELSE /\ out.reply.code = 201
                    /\ \E id \in DOMAIN out.perms \ DOMAIN perms :
                         /\ out.perms[id].name = d.name
                         /\ out.perms[id].org = scope
                    /\ \A id \in DOMAIN perms :
                         id \in DOMAIN out.perms /\ out.perms[id] = perms[id]


NoRepeat(seq) == \A i \in 1..Len(seq), j \in 1..Len(seq) : seq[i] = seq[j] => i = j

C30_PermissionListHasNoRepeats ==
  /\ \A r \in DOMAIN roles : NoRepeat(roles[r].permissions)
  /\ \A r \in RoleIds, l \in SpelledPermLists :
       /\ \A q \in DOMAIN addPermissions(r, l).roles :
            NoRepeat(addPermissions(r, l).roles[q].permissions)
       /\ \A q \in DOMAIN removePermissions(r, l).roles :
            NoRepeat(removePermissions(r, l).roles[q].permissions)


\* C22: initializeDefaultPermissions creates a permission named
\* module:action for every module and action whose name is not on file and
\* leaves the permissions on file alone; after the call every pair has its
\* permission, and a call made when every pair has one creates nothing.
C22_DefaultPermissionsCompleted ==
  \A u \in UserIds :
    LET out == initializeDefaultPermissions(u)
        names == {perms[p].name : p \in DOMAIN perms}
        defaults == {defaultPermissions[k].name : k \in DOMAIN defaultPermissions}
    IN  /\ out.reply.code = 200
        /\ \A p \in DOMAIN perms : p \in DOMAIN out.perms /\ out.perms[p] = perms[p]
        /\ \A n \in defaults \ names :
             Cardinality({p \in DOMAIN out.perms \ DOMAIN perms :
                            out.perms[p].name = n}) = 1
        /\ \A p \in DOMAIN out.perms \ DOMAIN perms :
             out.perms[p].name \in defaults \ names
        /\ defaults \subseteq names => out.perms = perms


\* C23: applyLeave for a range that overlaps a pending or approved leave of
\* the same employee is refused (400), nothing being written, and no two
\* pending or approved leaves of one employee overlap.
C23_NoOverlappingLeaves ==
  /\ \A a \in DOMAIN leaves, b \in DOMAIN leaves :
       (/\ a # b
        /\ leaves[a].employeeId = leaves[b].employeeId
        /\ leaves[a].status \in {"pending", "approved"}
        /\ leaves[b].status \in {"pending", "approved"})
         => \/ leaves[a].endDate < leaves[b].startDate
            \/ leaves[b].endDate < leaves[a].startDate
  /\ (LeaveIds \ DOMAIN leaves # {}) =>
       \A e \in {"e1", "e2"}, s \in LeaveDates, en \in LeaveDates :
         (\E id \in DOMAIN leaves :
            /\ leaves[id].employeeId = e
            /\ leaves[id].status \in {"pending", "approved"}
            /\ leaves[id].startDate <= en /\ s <= leaves[id].endDate)
           => LET out == applyLeave([employeeId |-> e, leaveType |-> "annual",
                                     startDate |-> s, endDate |-> en])
              IN  out.reply.code = 400 /\ out.leaves = leaves

\* the collection ls is leaves with the status of leave id set to status,
\* the day count of that leave apart
StatusSet(ls, id, status) ==
  /\ DOMAIN ls = DOMAIN leaves
  /\ \A other \in DOMAIN leaves \ {id} : ls[other] = leaves[other]
  /\ [ls[id] EXCEPT !.totalDays = 0] =
       [leaves[id] EXCEPT !.status = status, !.totalDays = 0]

\* C24: approveLeave and rejectLeave succeed on a pending leave only,
\* cancelLeave on a pending or approved leave whose start date lies ahead
\* only; each sets its own status and touches no other leave; and a rejected
\* or cancelled leave keeps its status under approveLeave, rejectLeave,
\* cancelLeave and updateLeave (updateLeave refuses every leave that is not
\* pending).
C24_LeaveStatusOneWay ==
  \A id \in LeaveIds :
    LET approved == approveLeave(id, "e1")
        rejected == rejectLeave(id, "e1")
        known == id \in DOMAIN leaves
    IN  /\ approved.reply.code = 200 <=> (known /\ leaves[id].status = "pending")
        /\ rejected.reply.code = 200 <=> (known /\ leaves[id].status = "pending")
        /\ approved.reply.code = 200 =>
             StatusSet(approved.leaves, id, "approved")
        /\ rejected.reply.code = 200 =>
             StatusSet(rejected.leaves, id, "rejected")
        /\ approved.reply.code # 200 => approved.leaves = leaves
        /\ rejected.reply.code # 200 => rejected.leaves = leaves
        /\ \A e \in {<<>>, <<"e1">>} :
             LET cancelled == cancelLeave(id, e) IN
               /\ cancelled.reply.code = 200 <=>
                    (/\ known
                     /\ leaves[id].status \in {"pending", "approved"}
                     /\ leaves[id].startDate > now)
               /\ cancelled.reply.code = 200 =>
                    StatusSet(cancelled.leaves, id, "cancelled")
               /\ cancelled.reply.code # 200 => cancelled.leaves = leaves
        /\ (known /\ leaves[id].status # "pending") =>
             \A d \in LeaveUpdates(FewLeaveDates) :
               /\ updateLeave(id, d, "e1").leaves = leaves
               /\ updateLeave(id, d, "e1").reply.code = 400

\* an approval was refused when every leave on file was rejected or cancelled
C24_Witness ==
  /\ res.req = "approveLeave" /\ res.code = 400
  /\ DOMAIN leaves = LeaveIds
  /\ \E id \in DOMAIN leaves : leaves[id].status = "rejected"
  /\ \E id \in DOMAIN leaves : leaves[id].status = "cancelled"

\* C25: generating payroll a second time for the same (employee, month, year,
\* organization) is refused (400, the code's answer for a conflict) and
\* creates no record, and the collection never holds two records of one
\* (employee, month, year, organization)
C25_PayrollOncePerPeriod ==
  /\ \A u \in UserIds, m \in MonthNumbers, y \in Years, org \in OrgCodes :
       ExistingPayroll(u, m, y, org) # {} =>
         /\ generatePayroll(u, m, y, "e1", org).reply.code = 400
         /\ generatePayroll(u, m, y, "e1", org).payrolls = payrolls
  /\ \A u \in UserIds, m \in MonthStrings, y \in Years, orgRequired \in BOOLEAN :
       (\E id \in ExistingPayrollOfMonth(u, m, y) :
          ~Has(payrolls[id].organizationCode)) =>
         /\ generatePayrollForEmployee(u, m, y, "e1", orgRequired).reply.code = 400
         /\ generatePayrollForEmployee(u, m, y, "e1", orgRequired).payrolls = payrolls
  /\ \A i, j \in DOMAIN payrolls :
       /\ payrolls[i].userId = payrolls[j].userId
       /\ payrolls[i].month = payrolls[j].month
       /\ payrolls[i].year = payrolls[j].year
       /\ payrolls[i].organizationCode = payrolls[j].organizationCode
       => i = j

\* a second generatePayroll of a period on file has just been refused, and
\* the collection also holds a record made by generatePayrollForEmployee
C25_Witness ==
  /\ res.req = "generatePayroll"
  /\ res.code = 400
  /\ \E i, j \in DOMAIN payrolls :
       /\ Has(payrolls[i].organizationCode)
       /\ ~Has(payrolls[j].organizationCode)
       /\ payrolls[i].userId = payrolls[j].userId
       /\ payrolls[i].month = payrolls[j].month
       /\ payrolls[i].year = payrolls[j].year

\* C26: employee codes are unique within an organization: in every state
\* that creations with generated codes and deletions reach, the code that
\* the next creation assigns differs from the code of every user on file
\* in that organization, so the creation is accepted, and no two users of
\* an organization share a code
C26_EmployeeCodesUnique ==
  /\ \A o \in OrgCodes, d \in CreateUserData :
       Cardinality(DOMAIN staff) < MaxStaff =>
         /\ \A id \in DOMAIN staff :
              staff[id].organizationCode = o =>
                staff[id].employeeCode #
                  generatedEmployeeCode(NewUser(d, o)).employeeCode
         /\ createUser(d, o).reply.code = 201
  /\ \A i, j \in DOMAIN staff :
       /\ staff[i].organizationCode = staff[j].organizationCode
       /\ staff[i].employeeCode = staff[j].employeeCode
       => i = j

\* the users that getUsersAboveRole names
Named(result) == {result[i].userId : i \in DOMAIN result}

\* C27: getUsersAboveRole(role, organizationCode) returns exactly the active
\* users of the organization whose role number is strictly less than the
\* given role, and returns nothing for role 1
C27_UsersAboveRole ==
  \A o \in OrgCodes :
    /\ \A r \in 1..5 :
         Named(getUsersAboveRole(r, o)) =
           {id \in DOMAIN staff : /\ staff[id].organizationCode = o
                                  /\ staff[id].status = "active"
                                  /\ staff[id].role < r}
    /\ getUsersAboveRole(1, o) = <<>>

\* C28: after sequential clock-ins, clock-outs and resets the status query
\* reports not_started exactly when the employee has no record of today,
\* and canClockOut (status clocked_in) exactly when a clock-out at a later
\* instant of the day would succeed
C28_StatusTellsClockOut ==
  res.req = "getCurrentStatus" =>
    /\ res.status = "not_started" <=>
         ~\E id \in DOMAIN att : /\ att[id].employeeId = res.who
                                 /\ SameDay(att[id].date, now)
    /\ res.canClockOut <=> res.status = "clocked_in"
    /\ \A t \in Instants :
         t > now /\ SameDay(t, now) =>
           \A id \in FoundOrNew(getTodayAttendance(res.who, StartOfDay(t))) :
             res.canClockOut <=> clockOutAt(res.who, "", id, t).reply.code = 200

\* the query has answered available: the day's record is closed, a later
\* instant of the day exists, and a clock-out then would be refused
C28_Witness ==
  /\ res.req = "getCurrentStatus"
  /\ res.status = "available"
  /\ \E t \in Instants : t > now /\ SameDay(t, now)
  /\ \E id \in DOMAIN att : att[id].employeeId = res.who /\ Has(att[id].checkOut)

\* the employee has a record of the day of now
HasRecordToday(e) ==
  \E id \in DOMAIN att : att[id].employeeId = e /\ att[id].date = StartOfDay(now)

\* C29: a clock-in or clock-out never changes a record of an earlier day;
\* the first clock-in of a day creates a fresh open record of that day, and
\* a clock-out changes at most the record of the current day, also when the
\* record of the day before was left open
C29_EarlierDaysUntouched ==
  [][res'.req \in {"clockIn", "clockOut"} =>
       /\ \A id \in DOMAIN att :
            att[id].date < StartOfDay(now) =>
              id \in DOMAIN att' /\ att'[id] = att[id]
       /\ (res'.req = "clockIn" /\ res'.code # 404 /\ ~HasRecordToday(res'.who)) =>
            \E id \in DOMAIN att' \ DOMAIN att :
              /\ att'[id].employeeId = res'.who
              /\ att'[id].date = StartOfDay(now)
              /\ att'[id].checkIn = now
              /\ ~Has(att'[id].checkOut)
       /\ res'.req = "clockOut" =>
            /\ DOMAIN att' = DOMAIN att
            /\ \A id \in DOMAIN att :
                 att'[id] # att[id] =>
                   /\ att[id].employeeId = res'.who
                   /\ att[id].date = StartOfDay(now)
            /\ ~HasRecordToday(res'.who) => res'.code = 400 /\ att' = att
  ]_vars

\* a clock-in has just created the record of the second day while the
\* employee's record of the first day is still open
C29_Witness ==
  /\ res.req = "clockIn"
  /\ res.code = 201
  /\ now >= DayTicks
  /\ \E id \in DOMAIN att :
       /\ att[id].employeeId = res.who
       /\ att[id].date < StartOfDay(now)
       /\ ~Has(att[id].checkOut)
  /\ \E id \in DOMAIN att :
       /\ att[id].employeeId = res.who
       /\ att[id].date = StartOfDay(now)
       /\ ~Has(att[id].checkOut)

====
